---- MODULE Spec2Model ----
(***************************************************************************)
(* Trade lifecycle of the Autotrader backend: the trade record store, the  *)
(* HTTP handlers of app/routers/trades.py, the jobs of                     *)
(* app/services/trading.py, the intraday fetcher of app/utils/helpers.py   *)
(* and the scheduler of app/scheduler.py.                                  *)
(*                                                                         *)
(* Prices are integers in paise (1/100 rupee); TRADE_CAP is in rupees.     *)
(* A document field that is absent (or null) is <<>>, a field holding v is *)
(* <<v>>.  A record's identity (_id) is its position in the store.         *)
(* Dates are day numbers; a time of day is minutes after midnight.         *)
(***************************************************************************)
EXTENDS Integers, Sequences, FiniteSets, TLC

VARIABLES store, today, tradeCap, fetch, daily, sched, entry, runs

vars == <<store, today, tradeCap, fetch, daily, sched, entry, runs>>

(* ------------------------------ bounds -------------------------------- *)

\* most documents the trades collection holds in the model
MaxRecords == 2
\* last calendar day the clock reaches
MaxDay == 2

(* ------------------------- program constants -------------------------- *)

\* ewm(span=50)
Span == 50
\* up_percent >= 6
TargetPct == 6
\* fetch_from_nse(symbol, retries=3)
Retries == 3
\* .to_list(100)
ListLimit == 100
\* time(9, 15), time(9, 30), time(9, 0), time(10, 0) in minutes
T0915 == 555
T0930 == 570
T0900 == 540
T1000 == 600

None == <<>>
Some(v) == <<v>>
Val(f) == f[1]

Symbols == {"A", "B"}
Days == 1..MaxDay

\* settings.TRADE_CAP: int, read from the environment without validation
TradeCaps == {-1000, 1000}

Statuses == {"shortlisted", "not_triggered", "bought", "to_sell", "sold"}

(* ----------------------------- arithmetic ----------------------------- *)

Abs(x) == IF x < 0 THEN -x ELSE x

RECURSIVE Gcd(_, _)
Gcd(a, b) == IF b = 0 THEN a ELSE Gcd(b, a % b)

\* a rational <<n, d>> with d > 0, in lowest terms
Rat(n, d) ==
    LET g == Gcd(Abs(n), d)
    IN  IF g = 0 THEN <<0, 1>> ELSE <<n \div g, d \div g>>

RatLess(p, q) == p[1] * q[2] < q[1] * p[2]

\* n/d (n >= 0, d > 0) rounded to the nearest integer, ties to even
RoundHalfEven(n, d) ==
    LET q == n \div d
        r == n % d
    IN  IF 2 * r < d THEN q
        ELSE IF 2 * r > d THEN q + 1
        ELSE IF q % 2 = 0 THEN q ELSE q + 1

(* ------------------- intraday data (utils/helpers.py) ----------------- *)

\* a 15-minute candle: ago = 0 for a row of the current IST day, 1 for the
\* previous trading day; tod is the bar-open time of day; high in paise
Candle(ago, tod, high) == [ago |-> ago, tod |-> tod, high |-> high]

\* df.sort_index(): insertion sort on (day, time of day), oldest first
Before(c, d) == c.ago > d.ago \/ (c.ago = d.ago /\ c.tod < d.tod)

RECURSIVE InsertSorted(_, _)
InsertSorted(c, s) ==
    IF s = <<>> THEN <<c>>
    ELSE IF Before(c, Head(s)) THEN <<c>> \o s
    ELSE <<Head(s)>> \o InsertSorted(c, Tail(s))

RECURSIVE SortIndex(_)
SortIndex(s) ==
    IF s = <<>> THEN <<>>
    ELSE InsertSorted(s[Len(s)], SortIndex(SubSeq(s, 1, Len(s) - 1)))

IsToday(c) == c.ago = 0

\* one response of the NSE chart API
NseOk(candles) == [kind |-> "ok", candles |-> candles]
NseHttp(status) == [kind |-> "http", candles |-> <<>>, status |-> status]
NseExc == [kind |-> "exc", candles |-> <<>>]

\* fetch_from_nse: attempts[i] is what the API answers to the i-th request.
\* Returns None or <<rows of today>>.
RECURSIVE NseLoop(_, _)
NseLoop(attempts, attempt) ==
    IF attempt > Retries THEN None
    ELSE LET resp == attempts[attempt]
         IN  IF resp.kind = "ok"
             THEN IF resp.candles = <<>> THEN None
                  ELSE LET df_today == SelectSeq(SortIndex(resp.candles), IsToday)
                       IN  IF df_today = <<>> THEN None ELSE Some(df_today)
             ELSE NseLoop(attempts, attempt + 1)

fetch_from_nse(attempts) == NseLoop(attempts, 1)

\* how many requests fetch_from_nse sends for these answers
RECURSIVE NseRequests(_, _)
NseRequests(attempts, attempt) ==
    IF attempt > Retries THEN 0
    ELSE IF attempts[attempt].kind = "ok" THEN 1
    ELSE 1 + NseRequests(attempts, attempt + 1)

\* one answer of yf.download(interval="15m"): rows or an exception
YfOk(rows) == [kind |-> "ok", rows |-> rows]
YfExc == [kind |-> "exc", rows |-> <<>>]

LastDayRows(rows) ==
    LET last_day == rows[Len(rows)].ago
    IN  SelectSeq(rows, LAMBDA c : c.ago = last_day)

\* the yfinance fallback of fetch_intraday_15m_for_today
YfFallback(yf) ==
    IF yf.kind = "exc" THEN None
    ELSE IF yf.rows = <<>> THEN None
    ELSE LET data_today == SelectSeq(yf.rows, IsToday)
         IN  IF data_today = <<>>
             THEN Some(SortIndex(LastDayRows(yf.rows)))
             ELSE Some(SortIndex(data_today))

\* a feed: what the two sources answer for one symbol
Feed(nse, yf) == [nse |-> nse, yf |-> yf]

fetch_intraday_15m_for_today(feed) ==
    LET df == fetch_from_nse(feed.nse)
    IN  IF df # None /\ Val(df) # <<>> THEN df ELSE YfFallback(feed.yf)

\* whether the fallback source is asked at all
UsesFallback(feed) ==
    LET df == fetch_from_nse(feed.nse)
    IN  ~(df # None /\ Val(df) # <<>>)

AllFail == <<NseHttp(401), NseExc, NseHttp(500)>>
Direct(candles) == <<NseOk(candles), NseExc, NseExc>>

\* the feeds the model draws from
Feeds ==
    << \* 1: no data from either source
       Feed(AllFail, YfOk(<<>>)),
       \* 2: 09:15 high 100.00, later high 101.50 (breakout)
       Feed(Direct(<<Candle(0, 555, 10000), Candle(0, 570, 10150)>>), YfExc),
       \* 3: 09:15 candle holds the day's high (no breakout)
       Feed(Direct(<<Candle(0, 555, 10000), Candle(0, 570, 9900)>>), YfExc),
       \* 4: NSE fails three times, yfinance has today's rows, first at 09:45
       Feed(AllFail, YfOk(<<Candle(1, 555, 9000), Candle(0, 585, 10300),
                            Candle(0, 600, 10450)>>)),
       \* 5: only candles after 10:00
       Feed(Direct(<<Candle(0, 615, 10000), Candle(0, 630, 10150)>>), YfExc),
       \* 6: breakout at a price above the trade cap
       Feed(Direct(<<Candle(0, 555, 120000), Candle(0, 570, 121000)>>), YfExc),
       \* 7: reference high of zero
       Feed(Direct(<<Candle(0, 555, 0), Candle(0, 570, 10000)>>), YfExc),
       \* 8: NSE has no rows, yfinance has only the previous day's rows
       Feed(<<NseOk(<<>>), NseExc, NseExc>>,
            YfOk(<<Candle(1, 555, 9000), Candle(1, 570, 9500)>>)) >>

FeedIds == 1..Len(Feeds)

\* what the fetcher returns for each feed
IntradayOf == [k \in FeedIds |-> fetch_intraday_15m_for_today(Feeds[k])]

(* ---------------- daily data and the EMA (services/trading.py) -------- *)

RatAdd(p, q) == Rat(p[1] * q[2] + q[1] * p[2], p[2] * q[2])
RatMul(p, q) == Rat(p[1] * q[1], p[2] * q[2])
\* p / q for q > 0
RatDiv(p, q) ==
    LET g == Gcd(p[2], q[2])
    IN  Rat(p[1] * (q[2] \div g), (p[2] \div g) * q[1])

\* one answer of yf.download: a column of closes (oldest first) or an exception
DailyOk(closes) == [kind |-> "ok", closes |-> closes]
DailyExc == [kind |-> "exc", closes |-> <<>>]

\* 1 - alpha for alpha = 2 / (span + 1)
OneMinusAlpha(span) == Rat(span - 1, span + 1)

\* one step of ewm(adjust=False): alpha * x + (1 - alpha) * y with
\* alpha = 2 / (span + 1), as a rational in lowest terms
EwmStep(y, x, span) ==
    LET n == 2 * x * y[2] + (span - 1) * y[1]
        d == (span + 1) * y[2]
        g == Gcd(Abs(n), d)
    IN  <<n \div g, d \div g>>

\* the steps for rows lo..hi applied in order to y.  The range is halved and
\* the left half's value is bound before the right half is entered, which
\* keeps the evaluation shallow; the steps and their order are the loop's.
RECURSIVE EwmFold(_, _, _, _, _)
EwmFold(closes, span, lo, hi, y) ==
    IF lo > hi THEN y
    ELSE IF lo = hi THEN EwmStep(y, closes[lo], span)
    ELSE LET mid == (lo + hi) \div 2
         IN  CHOOSE r \in { EwmFold(closes, span, mid + 1, hi, left) :
                              left \in {EwmFold(closes, span, lo, mid, y)} } : TRUE

\* Series.ewm(span=span, adjust=False).mean(): the value at row t
\*   y[1] = x[1], y[t] = alpha * x[t] + (1 - alpha) * y[t-1]
EwmRecursive(closes, span, t) == EwmFold(closes, span, 2, t, <<closes[1], 1>>)

\* Series.ewm(span=span).mean() (adjust=True, the pandas default): the value
\* at row t is sum_i (1-alpha)^i x[t-i] / sum_i (1-alpha)^i
RECURSIVE EwmNum(_, _, _)
EwmNum(closes, span, t) ==
    IF t = 1 THEN Rat(closes[1], 1)
    ELSE RatAdd(Rat(closes[t], 1),
                RatMul(OneMinusAlpha(span), EwmNum(closes, span, t - 1)))

RECURSIVE EwmDen(_, _)
EwmDen(span, t) ==
    IF t = 1 THEN Rat(1, 1)
    ELSE RatAdd(Rat(1, 1), RatMul(OneMinusAlpha(span), EwmDen(span, t - 1)))

EwmAdjusted(closes, span, t) == RatDiv(EwmNum(closes, span, t), EwmDen(span, t))

LastClose(closes) == closes[Len(closes)]

\* is_nifty_above_50ema, for an answer that is not an exception
is_nifty_above_50ema(nifty) ==
    IF nifty.closes = <<>> THEN FALSE
    ELSE RatLess(EwmRecursive(nifty.closes, Span, Len(nifty.closes)),
                 Rat(LastClose(nifty.closes), 1))

\* check_stock_above_50ema, for an answer that is not an exception
check_stock_above_50ema(data) ==
    IF data.closes = <<>> \/ Len(data.closes) < Span THEN FALSE
    ELSE RatLess(EwmRecursive(data.closes, Span, Len(data.closes)),
                 Rat(LastClose(data.closes), 1))

\* ((close - bought_price) / bought_price) * 100 >= 6 in numpy arithmetic:
\* a division by zero gives inf (or nan when close = 0), not an exception
UpPercentReached(close, bought_price) ==
    IF bought_price = 0 THEN close > 0
    ELSE IF bought_price > 0
         THEN (close - bought_price) * 100 >= TargetPct * bought_price
         ELSE (close - bought_price) * 100 <= TargetPct * bought_price

\* check_stock_for_to_sell, for an answer that is not an exception
check_stock_for_to_sell(stock, data) ==
    IF data.closes = <<>> THEN FALSE
    ELSE IF stock.buy_price = None THEN FALSE
    ELSE \/ RatLess(Rat(LastClose(data.closes), 1),
                    EwmAdjusted(data.closes, Span, Len(data.closes)))
         \/ UpPercentReached(LastClose(data.closes), Val(stock.buy_price))

\* 49 equal closes and a last one
Flat(c, x) == [i \in 1..Span |-> IF i < Span THEN c ELSE x]

\* six months of daily closes of the index or of a stock
IndexSeries ==
    << DailyOk(<<>>),
       DailyOk(Flat(10000, 10510)),
       DailyOk(Flat(10000, 9490)),
       DailyOk(<<10000, 10200>>),
       DailyExc >>

IndexIds == 1..Len(IndexSeries)

\* daily closes read by the end-of-day check
SellSeries ==
    << DailyOk(<<>>),
       DailyOk(<<10000, 10700>>),
       DailyOk(<<10700, 10100>>),
       DailyOk(<<10000, 10100>>),
       DailyExc,
       DailyOk(<<10000, 11000, 10400>>) >>

SellIds == 1..Len(SellSeries)

\* the latest price: yf.download(period="1d", interval="1m"), and
\* yf.download(period="5d", interval="1d") when that is empty
PriceFeed(m1, d5) == [m1 |-> m1, d5 |-> d5]

PriceFeeds ==
    << PriceFeed(DailyOk(<<>>), DailyOk(<<>>)),
       PriceFeed(DailyOk(<<10650, 10700>>), DailyExc),
       PriceFeed(DailyOk(<<>>), DailyOk(<<9900, 10700>>)),
       PriceFeed(DailyOk(<<120000>>), DailyExc),
       PriceFeed(DailyExc, DailyOk(<<10000>>)) >>

PriceIds == 1..Len(PriceFeeds)

\* the two downloads of buy_stock / execute_buy_stock / sell_stock and
\* float(data.iloc[-1]["Close"]): kind is "exc" when a download raises,
\* "none" when both answers are empty, else "ok" with the last close
Price(kind, close) == [kind |-> kind, close |-> close]

LatestClose(pf) ==
    IF pf.m1.kind = "exc" THEN Price("exc", 0)
    ELSE IF pf.m1.closes # <<>> THEN Price("ok", LastClose(pf.m1.closes))
    ELSE IF pf.d5.kind = "exc" THEN Price("exc", 0)
    ELSE IF pf.d5.closes # <<>> THEN Price("ok", LastClose(pf.d5.closes))
    ELSE Price("none", 0)

NiftyOf == [k \in IndexIds |->
              IF IndexSeries[k].kind = "exc" THEN "exc"
              ELSE IF is_nifty_above_50ema(IndexSeries[k]) THEN "above" ELSE "below"]

StockOf == [k \in IndexIds |->
              IF IndexSeries[k].kind = "exc" THEN "exc"
              ELSE IF check_stock_above_50ema(IndexSeries[k]) THEN "above" ELSE "below"]

PriceOf == [k \in PriceIds |-> LatestClose(PriceFeeds[k])]

(* --------------------------- the record store ------------------------- *)

\* a candidate as scrape_chartink builds it (status "shortlisted",
\* shortlisted_date = current_date()), without the Mongo _id
Scraped(symbol, date) ==
    [ symbol |-> symbol, shortlisted_date |-> date, status |-> "shortlisted",
      close |-> IF symbol = "A" THEN 9950 ELSE 20500,
      per_chg |-> IF symbol = "A" THEN 3 ELSE 5,
      volume |-> IF symbol = "A" THEN 100000 ELSE 250000,
      buy_price |-> None, quantity |-> None, buy_date |-> None,
      first_candle_time |-> None, first_candle_high |-> None, day_high |-> None,
      checked_date |-> None, sell_price |-> None, sell_date |-> None,
      profit_pct |-> None ]

Min(a, b) == IF a < b THEN a ELSE b

\* find({"status": status}).to_list(ListLimit): the _ids, in store order
FindByStatus(st, status) ==
    LET all == SelectSeq([i \in 1..Len(st) |-> i], LAMBDA i : st[i].status = status)
    IN  SubSeq(all, 1, Min(ListLimit, Len(all)))

\* find_one on a key no document has: nothing is ever found
FindNothing(st, symbol, date) == 0

\* find_one({"symbol": symbol, "shortlisted_date": date}): an _id or 0
FindBySymbolDate(st, symbol, date) ==
    LET hits == SelectSeq([i \in 1..Len(st) |-> i],
                          LAMBDA i : st[i].symbol = symbol /\ st[i].shortlisted_date = date)
    IN  IF hits = <<>> THEN 0 ELSE hits[1]

\* find_one({"symbol": symbol, "status": "shortlisted"}): an _id or 0
FindShortlisted(st, symbol) ==
    LET hits == SelectSeq([i \in 1..Len(st) |-> i],
                          LAMBDA i : st[i].symbol = symbol /\ st[i].status = "shortlisted")
    IN  IF hits = <<>> THEN 0 ELSE hits[1]

Range(f) == {f[i] : i \in DOMAIN f}

(* ------------------- update_shortlist (routers/trades.py) ------------- *)

\* the lists scrape_chartink may return
CandidateLists == {<<>>, <<"A">>, <<"B">>, <<"A", "B">>, <<"A", "A">>}

\* the loop over the scraped stocks; fault_at is the position of the
\* candidate at which a store call raises (0: none raises)
RECURSIVE ShortlistLoop(_, _, _, _, _, _)
ShortlistLoop(st, stocks, i, date, fault_at, inserted_count) ==
    IF i > Len(stocks)
    THEN [store |-> st, inserted |-> inserted_count, result |-> "ok"]
    ELSE IF i = fault_at
    THEN [store |-> st, inserted |-> inserted_count, result |-> "error"]
    ELSE IF FindBySymbolDate(st, stocks[i], date) = 0
    THEN ShortlistLoop(Append(st, Scraped(stocks[i], date)), stocks, i + 1, date,
                       fault_at, inserted_count + 1)
    ELSE ShortlistLoop(st, stocks, i + 1, date, fault_at, inserted_count)

update_shortlist(st, nifty, stocks, date, fault_at) ==
    IF nifty = "exc" THEN [store |-> st, inserted |-> 0, result |-> "error"]
    ELSE IF nifty # "above" THEN [store |-> st, inserted |-> 0, result |-> "below"]
    ELSE IF stocks = <<>> THEN [store |-> st, inserted |-> 0, result |-> "none_scraped"]
    ELSE ShortlistLoop(st, stocks, 1, date, fault_at, 0)

\* the answers is_nifty_above_50ema can give
NiftyStates == Range(NiftyOf)

UpdateShortlist ==
    \E nifty \in NiftyStates, stocks \in CandidateLists :
      \E fault_at \in 0..Len(stocks) :
        LET r == update_shortlist(store, nifty, stocks, today, fault_at)
        IN  /\ Len(r.store) <= MaxRecords
            /\ store' = r.store
            /\ UNCHANGED <<today, tradeCap, fetch, daily, sched, entry, runs>>

(* ---------- buy_shortlisted / evaluate_and_buy (routers/trades.py) ---- *)

\* the window with its end included
In0915Closed(c) == c.tod >= T0915 /\ c.tod <= T0930

\* 09:15 <= t < 09:30
In0915(c) == c.tod >= T0915 /\ c.tod < T0930
InMarketOpen(c) == c.tod >= T0900 /\ c.tod <= T1000

\* data_today["High"].iloc[-1]: the high of the latest candle
LastHigh(data) == data[Len(data)].high

\* data_today["High"].max()
RECURSIVE MaxHigh(_)
MaxHigh(data) ==
    IF Len(data) = 1 THEN data[1].high
    ELSE LET m == MaxHigh(Tail(data))
         IN  IF data[1].high > m THEN data[1].high ELSE m

\* the first candle of the day taken when neither window has one
FirstRowOfDay(data_today) ==
    LET df_915 == SelectSeq(data_today, In0915)
    IN  IF df_915 # <<>> THEN Some(df_915[1]) ELSE Some(data_today[1])

\* the reference candle first_row: <<row>>, or None when neither window has one
FirstRow(data_today) ==
    LET df_915 == SelectSeq(data_today, In0915)
        df_market == SelectSeq(data_today, InMarketOpen)
    IN  IF df_915 # <<>> THEN Some(df_915[1])
        ELSE IF df_market # <<>> THEN Some(df_market[1])
        ELSE None

\* the buffered price cut to whole paise instead of rounded
BreakoutPriceTruncated(first_high) == (first_high * 1002) \div 1000

\* round(first_high * 1.002, 2), in paise
BreakoutPrice(first_high) == RoundHalfEven(first_high * 1002, 1000)

\* round(settings.TRADE_CAP / price): the quotient rounded to the nearest
QuantityRounded(cap, price) == (2 * cap * 100 + price) \div (2 * price)

\* int(settings.TRADE_CAP // price): the cap is in rupees, the price in paise
Quantity(cap, price) == (cap * 100) \div price

\* the check left out: no quantity is refused
QtyNeverRefused(qty) == FALSE

\* if qty == 0: the purchase is refused
QtyIsZero(qty) == qty = 0

\* the $set of the buy branch
BoughtFields(stock, buy_price, qty, first_row, day_high, now) ==
    [stock EXCEPT !.buy_price = Some(buy_price), !.quantity = Some(qty),
                  !.buy_date = Some(now), !.status = "bought",
                  !.checked_date = Some(now),
                  !.first_candle_time = Some(first_row.tod),
                  !.first_candle_high = Some(first_row.high),
                  !.day_high = Some(day_high)]

\* the else branch writing the buy branch's update_fields
NotTriggeredWithBuyFields(stock, first_row, day_high, now) ==
    [stock EXCEPT !.status = "not_triggered", !.checked_date = Some(now),
                  !.buy_date = Some(now),
                  !.first_candle_time = Some(first_row.tod),
                  !.first_candle_high = Some(first_row.high),
                  !.day_high = Some(day_high)]

\* the $set of the else branch
NotTriggeredFields(stock, first_row, day_high, now) ==
    [stock EXCEPT !.status = "not_triggered", !.checked_date = Some(now),
                  !.first_candle_time = Some(first_row.tod),
                  !.first_candle_high = Some(first_row.high),
                  !.day_high = Some(day_high)]

\* the comparison with >= in place of >
BreakoutOrEqual(day_high, first_high) == day_high >= first_high

\* day_high > first_high
Breakout(day_high, first_high) == day_high > first_high

\* evaluate_and_buy for the document id with feed k; store_ok is whether
\* update_one succeeds.  ret is "stock" when the function returns the
\* bought document and "None" otherwise.
evaluate_and_buy(st, id, k, store_ok, cap, now) ==
    LET stock == st[id]
        data_today == IntradayOf[k]
        same == [store |-> st, ret |-> "None"]
    IN  IF data_today = None \/ Val(data_today) = <<>> THEN same
        ELSE LET first_row == FirstRow(Val(data_today))
             IN  IF first_row = None THEN same
                 ELSE LET first_high == Val(first_row).high
                          day_high == MaxHigh(Val(data_today))
                          buy_price == BreakoutPrice(first_high)
                      IN  IF Breakout(day_high, first_high)
                          THEN IF buy_price = 0 THEN same   \* ZeroDivisionError, caught
                               ELSE IF QtyIsZero(Quantity(cap, buy_price)) THEN same
                               ELSE IF ~store_ok THEN same  \* update_one raises, caught
                               ELSE [store |-> [st EXCEPT ![id] =
                                        BoughtFields(stock, buy_price,
                                                     Quantity(cap, buy_price),
                                                     Val(first_row), day_high, now)],
                                     ret |-> "stock"]
                          ELSE IF ~store_ok THEN same
                               ELSE [store |-> [st EXCEPT ![id] =
                                        NotTriggeredFields(stock, Val(first_row),
                                                           day_high, now)],
                                     ret |-> "None"]

\* the loop left by the exception of the document whose update raises
RECURSIVE BuyLoopAborting(_, _, _, _, _, _, _, _)
BuyLoopAborting(st, shortlisted, feed_of, bad, cap, now, bought, not_triggered) ==
    IF shortlisted = <<>> \/ Head(shortlisted) = bad
    THEN [store |-> st, bought |-> bought, not_triggered |-> not_triggered]
    ELSE LET id == Head(shortlisted)
             res == evaluate_and_buy(st, id, feed_of[id], TRUE, cap, now)
         IN  IF res.ret = "stock"
             THEN BuyLoopAborting(res.store, Tail(shortlisted), feed_of, bad, cap,
                                  now, Append(bought, id), not_triggered)
             ELSE BuyLoopAborting(res.store, Tail(shortlisted), feed_of, bad, cap,
                                  now, bought, Append(not_triggered, id))

\* the loop of buy_shortlisted over the documents read at its start
RECURSIVE BuyLoop(_, _, _, _, _, _, _, _)
BuyLoop(st, shortlisted, feed_of, bad, cap, now, bought, not_triggered) ==
    IF shortlisted = <<>>
    THEN [store |-> st, bought |-> bought, not_triggered |-> not_triggered]
    ELSE LET id == Head(shortlisted)
             res == evaluate_and_buy(st, id, feed_of[id], id # bad, cap, now)
         IN  IF res.ret = "stock"
             THEN BuyLoop(res.store, Tail(shortlisted), feed_of, bad, cap, now,
                          Append(bought, id), not_triggered)
             ELSE BuyLoop(res.store, Tail(shortlisted), feed_of, bad, cap, now,
                          bought, Append(not_triggered, id))

\* the loop over a long batch, entered a quarter of the list limit at a
\* time: the value after one part is bound before the next part is entered,
\* which keeps the evaluation shallow; the steps and their order are the loop's
RECURSIVE BuyBatch(_, _, _, _, _, _, _, _)
BuyBatch(st, shortlisted, feed_of, bad, cap, now, bought, not_triggered) ==
    LET part == ListLimit \div 4
    IN  IF Len(shortlisted) <= part
        THEN BuyLoop(st, shortlisted, feed_of, bad, cap, now, bought, not_triggered)
        ELSE CHOOSE r \in
               { BuyBatch(done.store, SubSeq(shortlisted, part + 1, Len(shortlisted)),
                          feed_of, bad, cap, now, done.bought, done.not_triggered) :
                   done \in {BuyLoop(st, SubSeq(shortlisted, 1, part), feed_of, bad,
                                     cap, now, bought, not_triggered)} } : TRUE

\* buy_shortlisted.  nifty is the state of the index while the job runs: the
\* function never calls is_nifty_above_50ema, so nothing below reads it.
\* feed_of[id] is the market data of document id, bad the _id whose
\* update_one raises (0: none).  fetched: the documents for which
\* fetch_intraday_15m_for_today is called.
buy_shortlisted(st, nifty, feed_of, bad, cap, now) ==
    LET shortlisted == FindByStatus(st, "shortlisted")
        r == BuyBatch(st, shortlisted, feed_of, bad, cap, now, <<>>, <<>>)
    IN  [store |-> r.store, bought |-> r.bought, not_triggered |-> r.not_triggered,
         fetched |-> Range(shortlisted)]

ShortlistedIds(st) == Range(FindByStatus(st, "shortlisted"))

BuyShortlisted ==
    \E nifty \in {"above", "below"}, bad \in {0} \cup ShortlistedIds(store) :
      \E feed_of \in [ShortlistedIds(store) -> FeedIds] :
        /\ store' = buy_shortlisted(store, nifty, feed_of, bad, tradeCap, today).store
        /\ UNCHANGED <<today, tradeCap, fetch, daily, sched, entry, runs>>

(* ---------- mark_not_triggered / buy_stock_api (routers/trades.py) ---- *)

\* the $set of mark_not_triggered and of the two filters of buy_stock_api
ManualNotTriggered(stock, now) ==
    [stock EXCEPT !.status = "not_triggered", !.checked_date = Some(now)]

\* find_one({"symbol": symbol}): the status filter dropped
FindAnyStatus(st, symbol) ==
    LET hits == SelectSeq([i \in 1..Len(st) |-> i], LAMBDA i : st[i].symbol = symbol)
    IN  IF hits = <<>> THEN 0 ELSE hits[1]

\* the document mark_not_triggered and buy_stock_api work on: an _id or 0
ManualTarget(st, symbol) == FindShortlisted(st, symbol)

\* mark_not_triggered answering a missing document with an HTTPException
mark_not_triggered_raising(st, symbol, store_ok, now) ==
    LET id == ManualTarget(st, symbol)
    IN  IF id = 0 \/ ~store_ok THEN [store |-> st, result |-> "error500"]
        ELSE [store |-> [st EXCEPT ![id] = ManualNotTriggered(st[id], now)],
              result |-> "marked"]

mark_not_triggered(st, symbol, store_ok, now) ==
    LET id == ManualTarget(st, symbol)
    IN  IF id = 0 THEN [store |-> st, result |-> "not_found"]
        ELSE IF ~store_ok THEN [store |-> st, result |-> "error500"]
        ELSE [store |-> [st EXCEPT ![id] = ManualNotTriggered(st[id], now)],
              result |-> "marked"]

\* the $set of execute_buy_stock and of trading.buy_stock
ManualBoughtFields(stock, price, qty, now) ==
    [stock EXCEPT !.buy_price = Some(price), !.quantity = Some(qty),
                  !.buy_date = Some(now), !.status = "bought",
                  !.per_chg = stock.per_chg, !.volume = stock.volume,
                  !.close = stock.close]

\* execute_buy_stock: every exception is caught and gives None
execute_buy_stock(st, id, price, store_ok, cap, now) ==
    LET same == [store |-> st, ret |-> "None"]
    IN  IF price.kind # "ok" THEN same
        ELSE IF price.close = 0 THEN same          \* ZeroDivisionError, caught
        ELSE IF QtyIsZero(Quantity(cap, price.close)) THEN same
        ELSE IF ~store_ok THEN same
        ELSE [store |-> [st EXCEPT ![id] =
                 ManualBoughtFields(st[id], price.close,
                                    Quantity(cap, price.close), now)],
              ret |-> "stock"]

\* buy_stock_api: nifty and above are the answers of is_nifty_above_50ema and
\* check_stock_above_50ema ("above", "below", or "exc" when the download raises)
buy_stock_api(st, symbol, nifty, above, price, store_ok, cap, now) ==
    LET id == ManualTarget(st, symbol)
        marked == [st EXCEPT ![id] = ManualNotTriggered(st[id], now)]
    IN  IF id = 0 THEN [store |-> st, result |-> "not_found", fetches |-> 0]
        ELSE IF nifty = "exc" THEN [store |-> st, result |-> "error500", fetches |-> 1]
        ELSE IF nifty # "above"
        THEN IF store_ok THEN [store |-> marked, result |-> "nifty_below", fetches |-> 1]
             ELSE [store |-> st, result |-> "error500", fetches |-> 1]
        ELSE IF above = "exc" THEN [store |-> st, result |-> "error500", fetches |-> 2]
        ELSE IF above # "above"
        THEN IF store_ok THEN [store |-> marked, result |-> "stock_below", fetches |-> 2]
             ELSE [store |-> st, result |-> "error500", fetches |-> 2]
        ELSE LET r == execute_buy_stock(st, id, price, store_ok, cap, now)
             IN  [store |-> r.store,
                  result |-> IF r.ret = "stock" THEN "bought" ELSE "failed",
                  fetches |-> 3]

StockStates == Range(StockOf)
Prices == Range(PriceOf)

MarkNotTriggered ==
    \E symbol \in Symbols, store_ok \in BOOLEAN :
      /\ store' = mark_not_triggered(store, symbol, store_ok, today).store
      /\ UNCHANGED <<today, tradeCap, fetch, daily, sched, entry, runs>>

\* the answers the handler can read: a download it never reaches is left
\* at a fixed value
BuyApiInputs ==
    { i \in NiftyStates \X StockStates \X Prices :
        /\ i[1] # "above" => i[2] = "below"
        /\ (i[1] # "above" \/ i[2] # "above") => i[3] = Price("none", 0) }

BuyStockApi ==
    \E symbol \in Symbols :
      IF ManualTarget(store, symbol) = 0
      THEN UNCHANGED vars
      ELSE \E i \in BuyApiInputs, store_ok \in BOOLEAN :
             /\ store' = buy_stock_api(store, symbol, i[1], i[2], i[3], store_ok,
                                       tradeCap, today).store
             /\ UNCHANGED <<today, tradeCap, fetch, daily, sched, entry, runs>>

(* ------------- the end-of-day and next-day jobs (services/trading.py) -- *)

\* mark_to_sell_eod: the loop over the bought documents read at its start.
\* An exception of yf.download or of update_one is not caught: it ends the
\* loop and leaves the function (raised).
RECURSIVE MarkLoop(_, _, _, _)
MarkLoop(st, bought_stocks, daily_of, bad) ==
    IF bought_stocks = <<>> THEN [store |-> st, raised |-> FALSE]
    ELSE LET id == Head(bought_stocks)
             data == SellSeries[daily_of[id]]
         IN  IF data.kind = "exc" THEN [store |-> st, raised |-> TRUE]
             ELSE IF check_stock_for_to_sell(st[id], data)
             THEN IF id = bad THEN [store |-> st, raised |-> TRUE]
                  ELSE MarkLoop([st EXCEPT ![id].status = "to_sell"],
                                Tail(bought_stocks), daily_of, bad)
             ELSE MarkLoop(st, Tail(bought_stocks), daily_of, bad)

\* the loop over a long batch, a part at a time as in BuyBatch; an
\* exception in one part ends the run
RECURSIVE MarkBatch(_, _, _, _)
MarkBatch(st, bought_stocks, daily_of, bad) ==
    LET part == ListLimit \div 4
    IN  IF Len(bought_stocks) <= part THEN MarkLoop(st, bought_stocks, daily_of, bad)
        ELSE CHOOSE r \in
               { IF done.raised THEN done
                 ELSE MarkBatch(done.store,
                                SubSeq(bought_stocks, part + 1, Len(bought_stocks)),
                                daily_of, bad) :
                   done \in {MarkLoop(st, SubSeq(bought_stocks, 1, part),
                                      daily_of, bad)} } : TRUE

mark_to_sell_eod(st, daily_of, bad) ==
    MarkBatch(st, FindByStatus(st, "bought"), daily_of, bad)

\* ((sell_price - buy_price) / buy_price) * 100, as a rational
ProfitPct(sell_price, buy_price) ==
    IF buy_price > 0 THEN Rat((sell_price - buy_price) * 100, buy_price)
    ELSE Rat((buy_price - sell_price) * 100, -buy_price)

\* buy_price = stock.get("buy_price", 0); a missing, null or zero buy_price is falsy
Falsy(field) == field = None \/ Val(field) = 0

\* the $set of sell_stock closing the position as well: quantity set to 0
SoldFieldsClosed(stock, sell_price, now) ==
    [stock EXCEPT !.status = "sold", !.sell_price = Some(sell_price),
                  !.sell_date = Some(now), !.quantity = Some(0),
                  !.profit_pct = IF Falsy(stock.buy_price) THEN None
                                 ELSE Some(ProfitPct(sell_price, Val(stock.buy_price)))]

\* the $set of sell_stock
SoldFields(stock, sell_price, now) ==
    [stock EXCEPT !.status = "sold", !.sell_price = Some(sell_price),
                  !.sell_date = Some(now),
                  !.profit_pct = IF Falsy(stock.buy_price) THEN None
                                 ELSE Some(ProfitPct(sell_price, Val(stock.buy_price)))]

\* sell_stock: ret is "stock", "None", or "raise" when an exception leaves
\* the function: a download or update_one that raises, or the log line
\* formatting profit_pct = None with ":.2f" (after the update)
sell_stock(st, id, price, store_ok, now) ==
    IF price.kind = "exc" THEN [store |-> st, ret |-> "raise"]
    ELSE IF price.kind = "none" THEN [store |-> st, ret |-> "None"]
    ELSE IF ~store_ok THEN [store |-> st, ret |-> "raise"]
    ELSE [store |-> [st EXCEPT ![id] = SoldFields(st[id], price.close, now)],
          ret |-> IF Falsy(st[id].buy_price) THEN "raise" ELSE "stock"]

\* execute_sell_next_day: the loop over the to_sell documents read at its start
RECURSIVE SellLoop(_, _, _, _, _)
SellLoop(st, to_sell_stocks, price_of, bad, now) ==
    IF to_sell_stocks = <<>> THEN [store |-> st, raised |-> FALSE]
    ELSE LET id == Head(to_sell_stocks)
             r == sell_stock(st, id, PriceOf[price_of[id]], id # bad, now)
         IN  IF r.ret = "raise" THEN [store |-> r.store, raised |-> TRUE]
             ELSE SellLoop(r.store, Tail(to_sell_stocks), price_of, bad, now)

\* the loop over a long batch, a part at a time as in BuyBatch; an
\* exception in one part ends the run
RECURSIVE SellBatch(_, _, _, _, _)
SellBatch(st, to_sell_stocks, price_of, bad, now) ==
    LET part == ListLimit \div 4
    IN  IF Len(to_sell_stocks) <= part
        THEN SellLoop(st, to_sell_stocks, price_of, bad, now)
        ELSE CHOOSE r \in
               { IF done.raised THEN done
                 ELSE SellBatch(done.store,
                                SubSeq(to_sell_stocks, part + 1, Len(to_sell_stocks)),
                                price_of, bad, now) :
                   done \in {SellLoop(st, SubSeq(to_sell_stocks, 1, part),
                                      price_of, bad, now)} } : TRUE

execute_sell_next_day(st, price_of, bad, now) ==
    SellBatch(st, FindByStatus(st, "to_sell"), price_of, bad, now)

BoughtIds(st) == Range(FindByStatus(st, "bought"))
ToSellIds(st) == Range(FindByStatus(st, "to_sell"))

\* the 6 PM job and POST /check_to_sell
MarkToSellEod ==
    \E bad \in {0} \cup BoughtIds(store) :
      \E daily_of \in [BoughtIds(store) -> SellIds] :
        /\ store' = mark_to_sell_eod(store, daily_of, bad).store
        /\ UNCHANGED <<today, tradeCap, fetch, daily, sched, entry, runs>>

\* the 9:16 AM job and POST /sell_next_day
ExecuteSellNextDay ==
    \E bad \in {0} \cup ToSellIds(store) :
      \E price_of \in [ToSellIds(store) -> PriceIds] :
        /\ store' = execute_sell_next_day(store, price_of, bad, today).store
        /\ UNCHANGED <<today, tradeCap, fetch, daily, sched, entry, runs>>

(* ------------------- trading.buy_stock (services/trading.py) ---------- *)

\* buy_stock(stock) for a document of the store ("_id" in stock): update_one
buy_stock_update(st, id, price, store_ok, cap, now) ==
    execute_buy_stock(st, id, price, store_ok, cap, now)

\* buy_stock(stock) for a dict without "_id": insert_one({**stock, **update_fields})
buy_stock_insert(st, stock, price, store_ok, cap, now) ==
    LET same == [store |-> st, ret |-> "None"]
    IN  IF price.kind # "ok" THEN same
        ELSE IF price.close = 0 THEN same
        ELSE IF QtyIsZero(Quantity(cap, price.close)) THEN same
        ELSE IF ~store_ok THEN same
        ELSE [store |-> Append(st, ManualBoughtFields(stock, price.close,
                                       Quantity(cap, price.close), now)),
              ret |-> "stock"]

\* what the downloads of buy_stock give: a last close, or nothing
BuyStockPrices == {Price("ok", 10700), Price("none", 0)}

\* a caller passing a document it read from the store
BuyStockUpdate ==
    \E id \in 1..Len(store), price \in BuyStockPrices, store_ok \in BOOLEAN :
      /\ store' = buy_stock_update(store, id, price, store_ok, tradeCap, today).store
      /\ UNCHANGED <<today, tradeCap, fetch, daily, sched, entry, runs>>

\* a caller passing a scraped candidate, which has no "_id"
BuyStockInsert ==
    \E symbol \in Symbols, price \in BuyStockPrices, store_ok \in BOOLEAN :
      LET r == buy_stock_insert(store, Scraped(symbol, today), price, store_ok,
                                tradeCap, today)
      IN  /\ Len(r.store) <= MaxRecords
          /\ store' = r.store
          /\ UNCHANGED <<today, tradeCap, fetch, daily, sched, entry, runs>>

(* ----------- the fetcher, one request at a time (utils/helpers.py) ----- *)

\* what a call gives its caller: a value, or an exception
Returned(v) == [kind |-> "value", value |-> v]
Raised == [kind |-> "raise", value |-> None]
Pending == [kind |-> "pending", value |-> None]

\* what one NSE request can be answered: rows of today (unsorted), HTTP 200
\* without candles, HTTP 200 with rows of the previous day only, 401, 500,
\* or an exception (a timeout, a payload that resp.json() or the DataFrame
\* constructor rejects)
NseAnswers ==
    { NseOk(<<Candle(0, 570, 10150), Candle(0, 555, 10000)>>),
      NseOk(<<>>),
      NseOk(<<Candle(1, 555, 9000)>>),
      NseHttp(401),
      NseHttp(500),
      NseExc }

\* what yf.download(interval="15m") can answer
YfAnswers ==
    { YfOk(<<>>),
      YfOk(<<Candle(1, 555, 9000), Candle(0, 570, 10450), Candle(0, 555, 10300)>>),
      YfOk(<<Candle(1, 555, 9000), Candle(1, 570, 9500)>>),
      YfExc }

\* no call of the fetcher in progress
FetchIdle ==
    [nse |-> <<>>, yf |-> YfExc, pc |-> "idle", attempt |-> 0, requests |-> 0,
     asked_yf |-> FALSE, out |-> Pending]

\* the call as it starts: attempt 1 of the retry loop
FetchStart(nse, yf) ==
    [nse |-> nse, yf |-> yf, pc |-> "nse", attempt |-> 1, requests |-> 0,
     asked_yf |-> FALSE, out |-> Pending]

\* the loop body taking a frame with rows of today for no data
NseStepDropsFrame(resp) == [kind |-> IF resp.kind = "ok" THEN "return" ELSE "retry",
                            value |-> None]

\* one pass through the body of the retry loop: the function returns
\* (rows or None), or goes on to the sleep and the next attempt
NseStep(resp) ==
    IF resp.kind = "ok"
    THEN IF resp.candles = <<>> THEN [kind |-> "return", value |-> None]
         ELSE LET df_today == SelectSeq(SortIndex(resp.candles), IsToday)
              IN  IF df_today = <<>> THEN [kind |-> "return", value |-> None]
                  ELSE [kind |-> "return", value |-> Some(df_today)]
    ELSE [kind |-> "retry", value |-> None]

\* the except clause of the fallback lets the exception through
YfExceptReraise(yf) == Raised

\* the except clause of the fallback: log and return None
YfExcept(yf) == Returned(None)

\* one request to NSE; a returned frame that is not empty ends the call,
\* None or the end of the loop leads to the fallback
NseAttempt ==
    /\ fetch.pc = "nse"
    /\ LET step == NseStep(fetch.nse[fetch.attempt])
           asked == [fetch EXCEPT !.requests = fetch.requests + 1]
       IN  fetch' =
             IF step.kind = "return"
             THEN IF step.value # None /\ Val(step.value) # <<>>
                  THEN [asked EXCEPT !.pc = "done", !.out = Returned(step.value)]
                  ELSE [asked EXCEPT !.pc = "yf"]
             ELSE IF fetch.attempt < Retries
                  THEN [asked EXCEPT !.attempt = fetch.attempt + 1]
                  ELSE [asked EXCEPT !.pc = "yf"]
    /\ UNCHANGED <<store, today, tradeCap, daily, sched, entry, runs>>

\* the yfinance fallback, inside its try block
YfDownload ==
    /\ fetch.pc = "yf"
    /\ fetch' = [fetch EXCEPT !.pc = "done", !.asked_yf = TRUE,
                              !.out = IF fetch.yf.kind = "exc"
                                      THEN YfExcept(fetch.yf)
                                      ELSE Returned(YfFallback(fetch.yf))]
    /\ UNCHANGED <<store, today, tradeCap, daily, sched, entry, runs>>

(* -------- the two "above its 50-EMA" checks applied (trading.py) ------- *)

\* n daily closes: n - 1 times c, then x
Series(n, c, x) == [i \in 1..n |-> IF i < n THEN c ELSE x]

\* the histories yf.download can answer: every length from 0 to Span + 1,
\* the last close above, below or at the earlier ones
Histories ==
    { Series(n, 10000, x) : n \in 0..(Span + 1), x \in {10510, 9490, 10000} }

\* no check in progress
DailyIdle == [closes |-> <<>>, who |-> "idle", answer |-> None]

\* is_nifty_above_50ema() on the downloaded history
CheckNifty ==
    /\ daily.who = "called"
    /\ daily' = [daily EXCEPT !.who = "nifty",
                              !.answer = Some(is_nifty_above_50ema(DailyOk(daily.closes)))]
    /\ UNCHANGED <<store, today, tradeCap, fetch, sched, entry, runs>>

\* check_stock_above_50ema(symbol) on the downloaded history
CheckStock ==
    /\ daily.who = "called"
    /\ daily' = [daily EXCEPT !.who = "stock",
                              !.answer = Some(check_stock_above_50ema(DailyOk(daily.closes)))]
    /\ UNCHANGED <<store, today, tradeCap, fetch, sched, entry, runs>>

(* ---------------- the scheduler (scheduler.py, decorators.py) ---------- *)

\* a configuration string is a sequence of characters
SplitFrom(s, i, word) ==
    LET Flush(w) == IF w = <<>> THEN <<>> ELSE <<w>>
        RECURSIVE Go(_, _)
        Go(k, w) ==
            IF k > Len(s) THEN Flush(w)
            ELSE IF s[k] = " " THEN Flush(w) \o Go(k + 1, <<>>)
            ELSE Go(k + 1, Append(w, s[k]))
    IN  Go(i, word)

\* str.split(): the tokens between runs of blanks
Split(s) == SplitFrom(s, 1, <<>>)

\* the settings read by JOBS
CronSettings ==
    {"SHORTLIST_CRON", "BUY_CRON", "EOD_MARK_TO_SELL_CRON", "EXECUTE_SELL_CRON"}

\* "45 8 *", "0 18 *", "16  9 1-5"
CronStrings ==
    { <<"4", "5", " ", "8", " ", "*">>,
      <<"0", " ", "1", "8", " ", "*">>,
      <<"1", "6", " ", " ", "9", " ", "1", "-", "5">> }

MonFri == <<"m", "o", "n", "-", "f", "r", "i">>
Kolkata == "Asia/Kolkata"

\* JOBS: the entries that are not commented out
JOBS ==
    << [id |-> "shortlist_job", func |-> "run_update_shortlist",
        cron |-> "SHORTLIST_CRON"] >>

\* hour, minute, day_of_week = job["cron"].split() and the CronTrigger built
CronTrigger(cron) ==
    LET tokens == Split(cron)
        hour == tokens[1]
        minute == tokens[2]
        day_of_week == tokens[3]
    IN  [hour |-> hour, minute |-> minute,
         day_of_week |-> IF day_of_week # <<"*">> THEN day_of_week ELSE MonFri,
         timezone |-> Kolkata]

\* no job has run yet
NoRun == [job |-> "", op |-> "", outcome |-> ""]

\* the process before start_scheduler, with its four settings
SchedConfigured(crons) ==
    [crons |-> crons, started |-> FALSE, timezone |-> "", jobs |-> <<>>,
     last |-> NoRun]

SchedIdle ==
    SchedConfigured([c \in CronSettings |-> <<"4", "5", " ", "8", " ", "*">>])

\* start_scheduler: add_job for every entry of JOBS, then scheduler.start()
StartScheduler ==
    /\ ~sched.started
    /\ sched' = [sched EXCEPT
                   !.started = TRUE,
                   !.timezone = Kolkata,
                   !.jobs = [id \in {JOBS[i].id : i \in 1..Len(JOBS)} |->
                               LET job == CHOOSE j \in Range(JOBS) : j.id = id
                               IN  [func |-> job.func,
                                    trigger |-> CronTrigger(sched.crons[job.cron])]]]
    /\ UNCHANGED <<store, today, tradeCap, fetch, daily, entry, runs>>

\* the wrapper with the except clause raising again
JobRunnerReraise(op) == IF op = "raised" THEN "raised" ELSE "result"

\* job_runner's wrapper around a function that returns or raises an
\* Exception: the result is passed on ("result"); the exception is logged
\* and the wrapper returns None ("none")
JobRunner(op) == IF op = "raised" THEN "none" ELSE "result"

\* the scheduler fires a registered job: the wrapper runs the function; the
\* job stays in the scheduler whatever the wrapper does
Tick ==
    /\ sched.started
    /\ \E id \in DOMAIN sched.jobs, op \in {"returned", "raised"} :
         sched' = [sched EXCEPT !.last = [job |-> id, op |-> op,
                                          outcome |-> JobRunner(op)]]
    /\ UNCHANGED <<store, today, tradeCap, fetch, daily, entry, runs>>

(* ------------- evaluate_and_buy on one day's candles ------------------ *)

\* the most candles a day's series holds
MaxCandles == 3

\* bar-open times around the ends of the two windows, and two highs
CandleTimes == {T0900 - 1, T0900, T0915, T0930 - 1, T0930, T1000, T1000 + 1}
CandleHighs == {10000, 10100}

\* today's candles in time order, as sort_index leaves them
DaySeries ==
    LET raw == UNION {[1..n -> CandleTimes \X CandleHighs] : n \in 0..MaxCandles}
        sorted == {s \in raw : \A i \in 1..(Len(s) - 1) : s[i][1] < s[i + 1][1]}
    IN  {[i \in DOMAIN s |-> Candle(0, s[i][1], s[i][2])] : s \in sorted}

\* no call of evaluate_and_buy in progress
EntryIdle ==
    [data_today |-> None, pc |-> "idle", first_row |-> None, day_high |-> None,
     outcome |-> ""]

\* evaluate_and_buy called: the fetcher has returned data_today
EntryCalled(data_today) == [EntryIdle EXCEPT !.data_today = data_today, !.pc = "called"]

\* evaluate_and_buy on the series the fetcher returned: the reference candle,
\* the day's high and the decision (update_one succeeds)
EvaluateOne ==
    /\ entry.pc = "called"
    /\ LET data_today == entry.data_today
           nothing == [entry EXCEPT !.pc = "done", !.outcome = "untouched"]
       IN  IF data_today = None \/ Val(data_today) = <<>> THEN entry' = nothing
           ELSE LET first_row == FirstRow(Val(data_today))
                    day_high == MaxHigh(Val(data_today))
                    chosen == [entry EXCEPT !.pc = "done", !.first_row = first_row,
                                            !.day_high = Some(day_high)]
                IN  IF first_row = None THEN entry' = nothing
                    ELSE IF ~Breakout(day_high, Val(first_row).high)
                    THEN entry' = [chosen EXCEPT !.outcome = "not_triggered"]
                    ELSE IF QtyIsZero(Quantity(tradeCap,
                                               BreakoutPrice(Val(first_row).high)))
                    THEN entry' = [nothing EXCEPT !.first_row = first_row,
                                                  !.day_high = Some(day_high)]
                    ELSE entry' = [chosen EXCEPT !.outcome = "bought"]
    /\ UNCHANGED <<store, today, tradeCap, fetch, daily, sched, runs>>

(* ------------- overlapping runs, one store call at a time ------------- *)

\* the two callers whose runs can overlap on the event loop: the scheduler's
\* job and the handler of an HTTP request
Slots == {"job", "api"}

\* a run that is not in progress
IdleRun == [op |-> "idle", batch |-> <<>>, stocks |-> <<>>, absent |-> FALSE]

NoRuns == [s \in Slots |-> IdleRun]

\* the status each batch operation reads at its start
StatusOf == [buy |-> "shortlisted", mark |-> "bought", sell |-> "to_sell"]

\* the documents find({"status": status}).to_list returns: the _id and the
\* buy_price the run keeps in its own copy of each document
Snapshot(st, status) ==
    LET ids == FindByStatus(st, status)
    IN  [i \in DOMAIN ids |-> [id |-> ids[i], buy_price |-> st[ids[i]].buy_price]]

\* the run after the document at the head of its batch: the next document,
\* or the end of the run
Advance(run) ==
    IF Len(run.batch) = 1 THEN IdleRun ELSE [run EXCEPT !.batch = Tail(@)]

\* buy_shortlisted, mark_to_sell_eod or execute_sell_next_day up to the
\* return of its find(...).to_list
StartRun ==
    \E s \in Slots, op \in DOMAIN StatusOf :
      /\ runs[s].op = "idle"
      /\ Snapshot(store, StatusOf[op]) # <<>>
      /\ runs' = [runs EXCEPT ![s] = [IdleRun EXCEPT !.op = op,
                                        !.batch = Snapshot(store, StatusOf[op])]]
      /\ UNCHANGED <<store, today, tradeCap, fetch, daily, sched, entry>>

\* the feeds of the overlapping runs: no data, a breakout, no breakout
RunFeeds == {1, 2, 3}

\* buy_shortlisted: evaluate_and_buy for the next document of the batch
BuyRunStep ==
    \E s \in Slots, k \in RunFeeds, store_ok \in BOOLEAN :
      /\ runs[s].op = "buy"
      /\ store' = evaluate_and_buy(store, Head(runs[s].batch).id, k, store_ok,
                                   tradeCap, today).store
      /\ runs' = [runs EXCEPT ![s] = Advance(runs[s])]
      /\ UNCHANGED <<today, tradeCap, fetch, daily, sched, entry>>

\* mark_to_sell_eod: the next document of the batch; an exception ends the run
MarkRunStep ==
    \E s \in Slots, d \in SellIds, store_ok \in BOOLEAN :
      /\ runs[s].op = "mark"
      /\ LET doc == Head(runs[s].batch)
             stock == [store[doc.id] EXCEPT !.buy_price = doc.buy_price]
             data == SellSeries[d]
         IN  IF data.kind = "exc"
             THEN store' = store /\ runs' = [runs EXCEPT ![s] = IdleRun]
             ELSE IF ~check_stock_for_to_sell(stock, data)
             THEN store' = store /\ runs' = [runs EXCEPT ![s] = Advance(runs[s])]
             ELSE IF ~store_ok
             THEN store' = store /\ runs' = [runs EXCEPT ![s] = IdleRun]
             ELSE /\ store' = [store EXCEPT ![doc.id].status = "to_sell"]
                  /\ runs' = [runs EXCEPT ![s] = Advance(runs[s])]
      /\ UNCHANGED <<today, tradeCap, fetch, daily, sched, entry>>

\* execute_sell_next_day: sell_stock for the next document of the batch, with
\* the buy_price of the run's own copy; an exception ends the run
SellRunStep ==
    \E s \in Slots, p \in PriceIds, store_ok \in BOOLEAN :
      /\ runs[s].op = "sell"
      /\ LET doc == Head(runs[s].batch)
             seen == [store EXCEPT ![doc.id].buy_price = doc.buy_price]
             r == sell_stock(seen, doc.id, PriceOf[p], store_ok, today)
         IN  /\ store' = [r.store EXCEPT ![doc.id].buy_price = store[doc.id].buy_price]
             /\ runs' = [runs EXCEPT ![s] = IF r.ret = "raise" THEN IdleRun
                                            ELSE Advance(runs[s])]
      /\ UNCHANGED <<today, tradeCap, fetch, daily, sched, entry>>


\* update_shortlist up to the start of its loop: the index is above its
\* EMA and the screener has returned stocks
StartShortlistRun ==
    \E s \in Slots, stocks \in CandidateLists \ {<<>>} :
      /\ runs[s].op = "idle"
      /\ runs' = [runs EXCEPT ![s] = [IdleRun EXCEPT !.op = "shortlist",
                                                     !.stocks = stocks]]
      /\ UNCHANGED <<store, today, tradeCap, fetch, daily, sched, entry>>

\* the run after the candidate at the head of its list
NextCandidate(run) ==
    IF Len(run.stocks) = 1 THEN IdleRun
    ELSE [run EXCEPT !.stocks = Tail(@), !.absent = FALSE]

\* exists = await find_one(symbol, shortlisted_date) for the next candidate
FindCandidate ==
    \E s \in Slots :
      /\ runs[s].op = "shortlist"
      /\ ~runs[s].absent
      /\ runs' = [runs EXCEPT ![s] =
                    IF FindBySymbolDate(store, Head(runs[s].stocks), today) = 0
                    THEN [runs[s] EXCEPT !.absent = TRUE]
                    ELSE NextCandidate(runs[s])]
      /\ UNCHANGED <<store, today, tradeCap, fetch, daily, sched, entry>>

\* if not exists: await insert_one(stock)
InsertCandidate ==
    \E s \in Slots :
      /\ runs[s].op = "shortlist"
      /\ runs[s].absent
      /\ Len(store) < MaxRecords
      /\ store' = Append(store, Scraped(Head(runs[s].stocks), today))
      /\ runs' = [runs EXCEPT ![s] = NextCandidate(runs[s])]
      /\ UNCHANGED <<today, tradeCap, fetch, daily, sched, entry>>

(* ------------- the scheduled jobs on the store (scheduler.py) --------- *)

\* the wrapped functions of scheduler.py
JobFuncs ==
    {"run_update_shortlist", "run_buy_shortlisted", "run_mark_to_sell_eod",
     "run_execute_sell_next_day"}

\* the scheduler fires the registered job whose function is func.  feeds,
\* series and prices are what the sources can answer during the run, and
\* faulty is whether a store call may raise.
JobRun(func, feeds, series, prices, faulty) ==
    /\ sched.started
    /\ \E id \in DOMAIN sched.jobs : sched.jobs[id].func = func
    /\ CASE func = "run_update_shortlist" ->
              \E nifty \in NiftyStates, stocks \in CandidateLists :
                \E fault_at \in IF faulty THEN 0..Len(stocks) ELSE {0} :
                  LET r == update_shortlist(store, nifty, stocks, today, fault_at)
                  IN  Len(r.store) <= MaxRecords /\ store' = r.store
         [] func = "run_buy_shortlisted" ->
              \E bad \in IF faulty THEN {0} \cup ShortlistedIds(store) ELSE {0} :
                \E feed_of \in [ShortlistedIds(store) -> feeds] :
                  store' = buy_shortlisted(store, "above", feed_of, bad, tradeCap,
                                           today).store
         [] func = "run_mark_to_sell_eod" ->
              \E bad \in IF faulty THEN {0} \cup BoughtIds(store) ELSE {0} :
                \E daily_of \in [BoughtIds(store) -> series] :
                  store' = mark_to_sell_eod(store, daily_of, bad).store
         [] func = "run_execute_sell_next_day" ->
              \E bad \in IF faulty THEN {0} \cup ToSellIds(store) ELSE {0} :
                \E price_of \in [ToSellIds(store) -> prices] :
                  store' = execute_sell_next_day(store, price_of, bad, today).store
    /\ UNCHANGED <<today, tradeCap, fetch, daily, sched, entry, runs>>

\* a tick of any registered job, whatever the sources and the store do
ScheduledRun == \E func \in JobFuncs : JobRun(func, FeedIds, SellIds, PriceIds, TRUE)

\* a tick during which the data is there and no call raises: candles with a
\* reference candle (feeds 2 and 3), closes that meet the exit condition
\* (series 3), a latest price (price feed 2)
GoodRun(func) == JobRun(func, {2, 3}, {3}, {2}, FALSE)

(* ------------- batches longer than the list limit --------------------- *)

\* how many documents beyond the limit of to_list the store may hold
MaxExtra == 1

\* candidate A shortlisted on each of the days 1..n and never decided
Backlog(n) == [i \in 1..n |-> Scraped("A", i)]

\* a run of buy_shortlisted in which every symbol has the same candles: a
\* breakout (feed 2) or none (feed 3)
BatchBuy ==
    \E k \in {2, 3} :
      /\ store' = buy_shortlisted(store, "above",
                                  [id \in ShortlistedIds(store) |-> k], 0,
                                  tradeCap, today).store
      /\ UNCHANGED <<today, tradeCap, fetch, daily, sched, entry, runs>>

\* a run of mark_to_sell_eod in which every symbol closed below its EMA
BatchMark ==
    /\ store' = mark_to_sell_eod(store, [id \in BoughtIds(store) |-> 3], 0).store
    /\ UNCHANGED <<today, tradeCap, fetch, daily, sched, entry, runs>>

\* a run of execute_sell_next_day in which every symbol has a latest price
BatchSell ==
    /\ store' = execute_sell_next_day(store, [id \in ToSellIds(store) |-> 2], 0,
                                      today).store
    /\ UNCHANGED <<today, tradeCap, fetch, daily, sched, entry, runs>>

(* ------------- the EMA column of the three checks (trading.py) --------- *)

\* the longest history the exit check is given
MaxRows == 3

\* Series.ewm(span=Span, adjust=adjust).mean(): one value per row
EmaColumn(closes, adjust) ==
    [t \in 1..Len(closes) |->
       IF adjust THEN EwmAdjusted(closes, Span, t) ELSE EwmRecursive(closes, Span, t)]

\* the daily closes of the downloads: every history of 1..MaxRows rows, and
\* two of Span rows
EmaHistories ==
    UNION { [1..n -> {100, 101, 107}] : n \in 1..MaxRows }
      \cup {Flat(10000, 10510), Flat(10000, 9490)}

\* nifty["50ema"] of is_nifty_above_50ema
EmaNifty ==
    /\ daily.who = "called"
    /\ daily' = [daily EXCEPT !.who = "nifty",
                              !.answer = Some(EmaColumn(daily.closes, FALSE))]
    /\ UNCHANGED <<store, today, tradeCap, fetch, sched, entry, runs>>

\* data["50ema"] of check_stock_above_50ema, which returns before it on
\* fewer than Span rows
EmaStock ==
    /\ daily.who = "called"
    /\ Len(daily.closes) >= Span
    /\ daily' = [daily EXCEPT !.who = "stock",
                              !.answer = Some(EmaColumn(daily.closes, FALSE))]
    /\ UNCHANGED <<store, today, tradeCap, fetch, sched, entry, runs>>

\* data["50ema"] of check_stock_for_to_sell: ewm(span=50) with the pandas
\* default adjust=True
EmaToSell ==
    /\ daily.who = "called"
    /\ Len(daily.closes) <= MaxRows
    /\ daily' = [daily EXCEPT !.who = "to_sell",
                              !.answer = Some(EmaColumn(daily.closes, TRUE))]
    /\ UNCHANGED <<store, today, tradeCap, fetch, sched, entry, runs>>

(* ------------------------------ the clock ----------------------------- *)

NextDay ==
    /\ today < MaxDay
    /\ today' = today + 1
    /\ UNCHANGED <<store, tradeCap, fetch, daily, sched, entry, runs>>

(* --------------------------- specifications --------------------------- *)

\* the empty collection; no fetch, no indicator call and no scheduler yet
Init ==
    /\ store = <<>>
    /\ today = 1
    /\ tradeCap \in TradeCaps
    /\ entry = EntryIdle
    /\ runs = NoRuns
    /\ fetch = FetchIdle
    /\ daily = DailyIdle
    /\ sched = SchedIdle

\* the scheduled jobs and the HTTP handlers, run one at a time
Next ==
    \/ UpdateShortlist
    \/ BuyShortlisted
    \/ MarkNotTriggered
    \/ BuyStockApi
    \/ MarkToSellEod
    \/ ExecuteSellNextDay
    \/ NextDay

Spec == Init /\ [][Next]_vars

\* the jobs and handlers of one day together with trading.buy_stock, which
\* no job or handler calls
NextWithBuyStock ==
    \/ UpdateShortlist
    \/ BuyShortlisted
    \/ MarkNotTriggered
    \/ BuyStockApi
    \/ MarkToSellEod
    \/ ExecuteSellNextDay
    \/ BuyStockUpdate
    \/ BuyStockInsert

SpecBuyStock == Init /\ [][NextWithBuyStock]_vars

\* one call of fetch_intraday_15m_for_today, for every combination of
\* answers of the two sources
InitFetch ==
    /\ store = <<>>
    /\ today = 1
    /\ tradeCap = 1000
    /\ entry = EntryIdle
    /\ runs = NoRuns
    /\ daily = DailyIdle
    /\ sched = SchedIdle
    /\ \E nse \in [1..Retries -> NseAnswers], yf \in YfAnswers :
         fetch = FetchStart(nse, yf)

NextFetch ==
    \/ NseAttempt
    \/ YfDownload

SpecFetch == InitFetch /\ [][NextFetch]_vars

\* one call of each check, for every history
InitEma ==
    /\ store = <<>>
    /\ today = 1
    /\ tradeCap = 1000
    /\ entry = EntryIdle
    /\ runs = NoRuns
    /\ fetch = FetchIdle
    /\ sched = SchedIdle
    /\ \E closes \in Histories :
         daily = [closes |-> closes, who |-> "called", answer |-> None]

NextEma ==
    \/ CheckNifty
    \/ CheckStock

SpecEma == InitEma /\ [][NextEma]_vars

\* the process start and the ticks of the scheduler, for every configuration
InitSched ==
    /\ store = <<>>
    /\ today = 1
    /\ tradeCap = 1000
    /\ entry = EntryIdle
    /\ runs = NoRuns
    /\ fetch = FetchIdle
    /\ daily = DailyIdle
    /\ \E crons \in [CronSettings -> CronStrings] : sched = SchedConfigured(crons)

NextSched ==
    \/ StartScheduler
    \/ Tick

SpecSched == InitSched /\ [][NextSched]_vars

\* one call of evaluate_and_buy, for every series of today's candles
InitEntry ==
    /\ store = <<>>
    /\ today = 1
    /\ tradeCap = 1000
    /\ fetch = FetchIdle
    /\ daily = DailyIdle
    /\ sched = SchedIdle
    /\ runs = NoRuns
    /\ \E data_today \in {None} \cup {Some(s) : s \in DaySeries} :
         entry = EntryCalled(data_today)

NextEntry == EvaluateOne

SpecEntry == InitEntry /\ [][NextEntry]_vars

\* the batch jobs run one document at a time, overlapping each other and the
\* single-document handlers
InitRuns ==
    /\ store = <<>>
    /\ today = 1
    /\ tradeCap = 1000
    /\ fetch = FetchIdle
    /\ daily = DailyIdle
    /\ sched = SchedIdle
    /\ entry = EntryIdle
    /\ runs = NoRuns

NextRuns ==
    \/ UpdateShortlist
    \/ MarkNotTriggered
    \/ StartRun
    \/ BuyRunStep
    \/ MarkRunStep
    \/ SellRunStep

SpecRuns == InitRuns /\ [][NextRuns]_vars

\* two callers of update_shortlist, one store call at a time
NextShortlistRuns ==
    \/ StartShortlistRun
    \/ FindCandidate
    \/ InsertCandidate

SpecShortlistRuns == InitRuns /\ [][NextShortlistRuns]_vars

\* the scheduler as started and its ticks on the store; every registered
\* job keeps ticking and is not starved of data for ever
NextLive ==
    \/ StartScheduler
    \/ ScheduledRun
    \/ NextDay

SpecLive ==
    /\ InitSched
    /\ [][NextLive]_vars
    /\ WF_vars(StartScheduler)
    /\ \A func \in JobFuncs : WF_vars(GoodRun(func))

\* the three batch jobs on a store that has accumulated undecided documents
InitBatch ==
    /\ \E n \in 1..(ListLimit + MaxExtra) : store = Backlog(n) /\ today = n
    /\ tradeCap = 1000
    /\ fetch = FetchIdle
    /\ daily = DailyIdle
    /\ sched = SchedIdle
    /\ entry = EntryIdle
    /\ runs = NoRuns

NextBatch ==
    \/ BatchBuy
    \/ BatchMark
    \/ BatchSell

SpecBatch == InitBatch /\ [][NextBatch]_vars

\* the 50-EMA column each of the three checks computes on a download
InitEmaColumn ==
    /\ store = <<>>
    /\ today = 1
    /\ tradeCap = 1000
    /\ entry = EntryIdle
    /\ runs = NoRuns
    /\ fetch = FetchIdle
    /\ sched = SchedIdle
    /\ \E closes \in EmaHistories :
         daily = [closes |-> closes, who |-> "called", answer |-> None]

NextEmaColumn ==
    \/ EmaNifty
    \/ EmaStock
    \/ EmaToSell

SpecEmaColumn == InitEmaColumn /\ [][NextEmaColumn]_vars

\* a call of the fetcher that is not abandoned: every request ends (the two
\* GETs have timeouts of 10 and 15 seconds, the sleep is 1.5 seconds, the
\* download is a blocking call) and the coroutine goes on to its next step
SpecFetchLive ==
    /\ InitFetch
    /\ [][NextFetch]_vars
    /\ WF_vars(NseAttempt)
    /\ WF_vars(YfDownload)

(* ------------------------------- claims ------------------------------- *)

EntryFields(r) == <<r.buy_price, r.quantity, r.buy_date, r.first_candle_time,
                    r.first_candle_high, r.day_high>>
ExitFields(r) == <<r.checked_date, r.sell_price, r.sell_date, r.profit_pct>>
AllAbsent(fields) == \A i \in DOMAIN fields : fields[i] = None

Ids == 1..Len(store)

AllowedChanges ==
    { <<"shortlisted", "bought">>, <<"shortlisted", "not_triggered">>,
      <<"bought", "to_sell">>, <<"to_sell", "sold">> }

\* C1: with the operations run one at a time (trading.buy_stock among them),
\* every status is one of the five, every status change is one of
\* shortlisted->bought, shortlisted->not_triggered, bought->to_sell,
\* to_sell->sold, and a document enters the store shortlisted: none is bought
\* without having been shortlisted immediately before.
C1_StatusMachine ==
    [][ /\ Len(store') >= Len(store)
        /\ \A id \in 1..Len(store') :
             /\ store'[id].status \in Statuses
             /\ id <= Len(store) =>
                  \/ store'[id].status = store[id].status
                  \/ <<store[id].status, store'[id].status>> \in AllowedChanges
             /\ id > Len(store) => store'[id].status = "shortlisted" ]_vars

\* C2: not_triggered and sold are terminal: no job or handler changes any
\* field of a document in one of these statuses, and none sets a status
\* back to shortlisted.
C2_Terminal ==
    [][ \A id \in Ids :
          /\ store[id].status \in {"not_triggered", "sold"} =>
               (id <= Len(store') /\ store'[id] = store[id])
          /\ (store[id].status # "shortlisted" /\ id <= Len(store')) =>
               store'[id].status # "shortlisted" ]_vars

\* a terminal document of day 1 beside a later document of the same symbol
\* that an operation of day 2 has bought
C2_Witness ==
    \E i \in Ids, j \in Ids :
      /\ store[i].status = "not_triggered" /\ store[i].checked_date = Some(1)
      /\ store[j].symbol = store[i].symbol
      /\ store[j].status = "bought" /\ store[j].buy_date = Some(2)

C4_QuantityPositive ==
    \A id \in Ids :
      store[id].status \in {"bought", "to_sell", "sold"} =>
        store[id].quantity # None /\ Val(store[id].quantity) > 0

\* C4 amended: for any TRADE_CAP >= 0, every bought, to_sell or sold document
\* has a quantity > 0, on the breakout path and on the manual path.
C4_QuantityPositiveAmended == tradeCap >= 0 => C4_QuantityPositive

\* documents bought on the breakout path and on the manual path, one sold
C4_Witness ==
    /\ tradeCap >= 0
    /\ \E i \in Ids, j \in Ids :
         /\ store[i].status = "sold" /\ store[i].first_candle_high # None
         /\ store[j].status = "bought" /\ store[j].first_candle_high = None

\* C5: a second run of update_shortlist on the same day with the same
\* candidate list (index above both times, no store call raising) inserts
\* nothing and leaves the store as the first run left it.
C5_ShortlistIdempotent ==
    \A stocks \in CandidateLists :
      LET first == update_shortlist(store, "above", stocks, today, 0)
          second == update_shortlist(first.store, "above", stocks, today, 0)
      IN  second.inserted = 0 /\ second.store = first.store

\* the store after a run that inserted both candidates of <<"A", "B">> today
C5_Witness ==
    /\ Len(store) = 2
    /\ \A id \in Ids : store[id].shortlisted_date = today /\ store[id].status = "shortlisted"
    /\ store[1].symbol = "A" /\ store[2].symbol = "B"
    /\ update_shortlist(store, "above", <<"A", "B">>, today, 0).inserted = 0

\* C6 as claimed: when buy_shortlisted runs while the index is below its
\* 50-EMA, every shortlisted document becomes not_triggered with checked_date
\* set and no intraday data is fetched for any of them.
C6_IndexShortCircuit ==
    \A feed_of \in [ShortlistedIds(store) -> FeedIds] :
      LET r == buy_shortlisted(store, "below", feed_of, 0, tradeCap, today)
      IN  /\ r.fetched = {}
          /\ \A id \in ShortlistedIds(store) :
               /\ r.store[id].status = "not_triggered"
               /\ r.store[id].checked_date = Some(today)

\* the amount in whole paise nearest to first_high * 1.002
NearestPaise(first_high) ==
    LET lo == (first_high * 1002) \div 1000
        Off(p) == Abs(1000 * p - 1002 * first_high)
    IN  CHOOSE p \in {lo, lo + 1} : \A q \in {lo, lo + 1} : Off(p) <= Off(q)

\* the intraday rows that give a reference candle
HasReference(data) ==
    /\ data # None
    /\ Val(data) # <<>>
    /\ FirstRow(Val(data)) # None

\* C7: in a run of buy_shortlisted (index above), a shortlisted document
\* whose update does not raise, with day_high > first_high and a quantity
\* other than 0, becomes bought with buy_price = first_high * 1.002 rounded to the paisa
\* and quantity = floor(TRADE_CAP / buy_price).
C7_BreakoutEntry ==
    \A bad \in {0} \cup ShortlistedIds(store) :
    \A feed_of \in [ShortlistedIds(store) -> FeedIds] :
      LET r == buy_shortlisted(store, "above", feed_of, bad, tradeCap, today)
      IN  \A id \in ShortlistedIds(store) \ {bad} :
            LET data == IntradayOf[feed_of[id]]
            IN  HasReference(data) =>
                  LET first_high == Val(FirstRow(Val(data))).high
                      day_high == MaxHigh(Val(data))
                      p == NearestPaise(first_high)
                      after == r.store[id]
                  IN  ( /\ day_high > first_high
                        /\ p > 0
                        /\ ~(0 <= tradeCap * 100 /\ tradeCap * 100 < p) ) =>
                        /\ after.status = "bought"
                        /\ after.buy_price = Some(p)
                        /\ after.quantity # None
                        /\ Val(after.quantity) * p <= tradeCap * 100
                        /\ tradeCap * 100 < (Val(after.quantity) + 1) * p

\* first_high 100.00, day_high 101.50, TRADE_CAP 1000: bought at 100.20, 9 shares
C7_Witness ==
    /\ tradeCap = 1000
    /\ \E id \in Ids :
         /\ store[id].status = "bought"
         /\ store[id].first_candle_high = Some(10000)
         /\ store[id].day_high = Some(10150)
         /\ store[id].buy_price = Some(10020)
         /\ store[id].quantity = Some(9)

\* C8: in a run of buy_shortlisted (index above), a shortlisted document
\* with a reference candle, whose update does not raise, becomes
\* not_triggered if and only if day_high <= first_high, and the update that does it records
\* first_candle_time, first_candle_high, day_high and checked_date.
C8_BreakoutRule ==
    \A bad \in {0} \cup ShortlistedIds(store) :
    \A feed_of \in [ShortlistedIds(store) -> FeedIds] :
      LET r == buy_shortlisted(store, "above", feed_of, bad, tradeCap, today)
      IN  \A id \in ShortlistedIds(store) \ {bad} :
            LET data == IntradayOf[feed_of[id]]
            IN  HasReference(data) =>
                  LET first_row == Val(FirstRow(Val(data)))
                      day_high == MaxHigh(Val(data))
                      after == r.store[id]
                  IN  /\ (after.status = "not_triggered") <=> (day_high <= first_row.high)
                      /\ after.status = "not_triggered" =>
                           /\ after.first_candle_time = Some(first_row.tod)
                           /\ after.first_candle_high = Some(first_row.high)
                           /\ after.day_high = Some(day_high)
                           /\ after.checked_date = Some(today)

\* a document marked not_triggered with day_high equal to first_high
C8_Witness ==
    \E id \in Ids :
      /\ store[id].status = "not_triggered"
      /\ store[id].first_candle_time = Some(T0915)
      /\ store[id].first_candle_high = Some(10000)
      /\ store[id].day_high = Some(10000)
      /\ store[id].checked_date # None

\* the exit condition of a bought document on its daily closes: the latest
\* close below the latest 50-EMA (the recursive EMA), or a gain of 6% or more
ExitCondition(stock, closes) ==
    \/ RatLess(Rat(LastClose(closes), 1), EwmRecursive(closes, Span, Len(closes)))
    \/ (LastClose(closes) - Val(stock.buy_price)) * 100 >= 6 * Val(stock.buy_price)

\* C9 as claimed: a run of mark_to_sell_eod moves a bought document to to_sell
\* if and only if its daily data is available and the exit condition holds;
\* every other bought document stays bought, untouched.  (A document whose
\* own download or update raises is left out of the "if".)
C9_ExitMarking ==
    \A bad \in {0} \cup BoughtIds(store) :
      \A daily_of \in [BoughtIds(store) -> SellIds] :
        LET r == mark_to_sell_eod(store, daily_of, bad)
        IN  \A id \in BoughtIds(store) :
              LET data == SellSeries[daily_of[id]]
              IN  IF /\ data.kind = "ok"
                     /\ data.closes # <<>>
                     /\ store[id].buy_price # None
                     /\ ExitCondition(store[id], data.closes)
                  THEN id # bad => r.store[id].status = "to_sell"
                  ELSE r.store[id] = store[id]

\* C10 as claimed: a run of execute_sell_next_day moves every to_sell document
\* whose latest price is available to sold, with sell_price, sell_date and
\* profit_pct = (sell - buy) / buy * 100 in the same update, and leaves a
\* document with no data from either source unchanged.  (A document whose
\* own download or update raises is left out.)
C10_ExitExecution ==
    \A bad \in {0} \cup ToSellIds(store) :
      \A price_of \in [ToSellIds(store) -> PriceIds] :
        LET r == execute_sell_next_day(store, price_of, bad, today)
        IN  \A id \in ToSellIds(store) :
              LET price == PriceOf[price_of[id]]
                  after == r.store[id]
              IN  /\ (price.kind = "ok" /\ id # bad) =>
                        /\ after.status = "sold"
                        /\ after.sell_price = Some(price.close)
                        /\ after.sell_date = Some(today)
                        /\ after.profit_pct =
                             Some(Rat((price.close - Val(store[id].buy_price)) * 100,
                                      Val(store[id].buy_price)))
                  /\ price.kind = "none" => after = store[id]

\* an answer of NSE that is a transient fault: a non-200 status, 401, an exception
Transient(resp) == resp.kind \in {"http", "exc"}

\* C11: when NSE fails with a transient fault on 3 consecutive attempts, the
\* fetcher asks yfinance and returns its result; and for every combination
\* of answers of the two sources the call returns a non-empty series or
\* None and never raises.
C11_FetcherFallback ==
    /\ fetch.out.kind # "raise"
    /\ fetch.pc = "done" =>
         /\ fetch.out.kind = "value"
         /\ fetch.out.value = None \/ Val(fetch.out.value) # <<>>
         /\ fetch.out.value =
              fetch_intraday_15m_for_today(Feed(fetch.nse, fetch.yf))
         /\ (\A i \in 1..Retries : Transient(fetch.nse[i])) =>
              /\ fetch.requests = Retries
              /\ fetch.asked_yf
              /\ fetch.out.value = YfFallback(fetch.yf)

\* three transient faults of NSE, then the rows yfinance has for today
C11_Witness ==
    /\ fetch.pc = "done"
    /\ fetch.nse = <<NseHttp(401), NseExc, NseHttp(500)>>
    /\ fetch.requests = Retries
    /\ fetch.asked_yf
    /\ fetch.out = Returned(Some(<<Candle(0, 555, 10300), Candle(0, 570, 10450)>>))

\* C12 as claimed: every kind of failure of NSE (a non-2xx status, a
\* malformed payload, HTTP 200 with no candles or no rows of today, 401) is
\* retried, up to 3 attempts in total, before the fetcher falls back: the
\* fallback is asked only after 3 requests.
C12_RetryEveryFailure ==
    (fetch.pc = "yf" \/ fetch.asked_yf) =>
      fetch.requests = Retries

\* C13 as claimed: is_nifty_above_50ema and check_stock_above_50ema answer
\* false whenever the daily history has fewer than 50 rows, for every
\* length from 0 to 49.
C13_ShortHistoryNotAbove ==
    (daily.answer # None /\ Len(daily.closes) < Span) => Val(daily.answer) = FALSE

\* the ids of the four jobs and the setting each takes its schedule from
JobSetting ==
    [ shortlist_job |-> "SHORTLIST_CRON", buy_job |-> "BUY_CRON",
      eod_to_sell |-> "EOD_MARK_TO_SELL_CRON", sell_next_day |-> "EXECUTE_SELL_CRON" ]

\* C17 as claimed: after start_scheduler the scheduler holds exactly four
\* jobs (shortlist, entry decision, exit marking, exit execution), each with
\* the trigger built from its own configuration string.
C17_FourJobs ==
    sched.started =>
      /\ DOMAIN sched.jobs = DOMAIN JobSetting
      /\ \A id \in DOMAIN sched.jobs :
           sched.jobs[id].trigger = CronTrigger(sched.crons[JobSetting[id]])

\* C18 as claimed: for a schedule string "<minute> <hour> <day-of-week>" the
\* trigger's minute is the first token, its hour the second and its
\* day-of-week the third, "*" replaced by mon-fri; trigger and scheduler are
\* in the Asia/Kolkata timezone.
C18_CronFields ==
    sched.started =>
      /\ sched.timezone = Kolkata
      /\ \A id \in DOMAIN sched.jobs :
           LET tokens == Split(sched.crons[JobSetting[id]])
               trigger == sched.jobs[id].trigger
           IN  /\ trigger.minute = tokens[1]
               /\ trigger.hour = tokens[2]
               /\ trigger.day_of_week = IF tokens[3] = <<"*">> THEN MonFri ELSE tokens[3]
               /\ trigger.timezone = Kolkata

\* C19: a job wrapped by job_runner never propagates an Exception to the
\* scheduler: whatever the wrapped function does the wrapper returns, and
\* every registered job is still registered after the run.
C19_JobContained ==
    [][ /\ sched'.last.outcome # "raised"
        /\ sched.started => (sched'.started /\ sched'.jobs = sched.jobs) ]_vars

\* the wrapped function raised and the wrapper returned None; the job is
\* still registered
C19_Witness ==
    /\ sched.started
    /\ sched.last.op = "raised"
    /\ sched.last.outcome = "none"
    /\ sched.last.job \in DOMAIN sched.jobs

\* the index is not above its 50-EMA: no data, fewer than 50 rows, or the
\* latest close not above the recursive EMA
IndexNotAbove(series) ==
    \/ series.kind = "exc"
    \/ Len(series.closes) < Span
    \/ ~RatLess(EwmRecursive(series.closes, Span, Len(series.closes)),
                Rat(LastClose(series.closes), 1))

\* C14 as claimed: update_shortlist inserts and modifies nothing whenever the
\* index is not above its 50-EMA (index data unavailable included) or the
\* screener returns no candidate; with no candidate the result is not an
\* error.
C14_ShortlistNoOp ==
    \A k \in IndexIds, stocks \in CandidateLists :
      \A fault_at \in 0..Len(stocks) :
        LET r == update_shortlist(store, NiftyOf[k], stocks, today, fault_at)
        IN  /\ (IndexNotAbove(IndexSeries[k]) \/ stocks = <<>>) =>
                  (r.store = store /\ r.inserted = 0)
            /\ (stocks = <<>> /\ IndexSeries[k].kind # "exc") => r.result # "error"

\* C15 as claimed: none of the four operations the scheduler invokes raises
\* past its own boundary, whatever the store, the screener or the market
\* data do.  (update_shortlist and buy_shortlisted end every fault in a
\* returned object; the formula is about the two that can raise.)
C15_NeverRaises ==
    /\ \A bad \in {0} \cup BoughtIds(store) :
         \A daily_of \in [BoughtIds(store) -> SellIds] :
           ~mark_to_sell_eod(store, daily_of, bad).raised
    /\ \A bad \in {0} \cup ToSellIds(store) :
         \A price_of \in [ToSellIds(store) -> PriceIds] :
           ~execute_sell_next_day(store, price_of, bad, today).raised

\* C16 as claimed: the summary of buy_shortlisted lists a document under
\* "bought" exactly when the run set it to bought and under "not_triggered"
\* exactly when the run set it to not_triggered; an untouched document is
\* under neither.
C16_SummaryAccurate ==
    \A bad \in {0} \cup ShortlistedIds(store) :
      \A feed_of \in [ShortlistedIds(store) -> FeedIds] :
        LET r == buy_shortlisted(store, "above", feed_of, bad, tradeCap, today)
        IN  \A id \in ShortlistedIds(store) :
              /\ (id \in Range(r.bought)) <=> (r.store[id].status = "bought")
              /\ (id \in Range(r.not_triggered)) <=>
                   (r.store[id].status = "not_triggered")

\* a breakout on a reference high of zero: the quantity divides by zero
ZeroReferenceHigh(data) ==
    /\ HasReference(data)
    /\ Val(FirstRow(Val(data))).high = 0
    /\ MaxHigh(Val(data)) > 0

\* C20: in buy_shortlisted a fault while one shortlisted document is
\* processed (sources that raise, a reference high of zero, an update that
\* raises) leaves that document unchanged, and every other document of
\* the batch is evaluated as if the fault had not happened.
C20_EntryIsolation ==
    \A bad \in {0} \cup ShortlistedIds(store) :
      \A feed_of \in [ShortlistedIds(store) -> FeedIds] :
        LET r == buy_shortlisted(store, "above", feed_of, bad, tradeCap, today)
        IN  /\ r.fetched = ShortlistedIds(store)
            /\ \A id \in ShortlistedIds(store) :
                 /\ (id = bad \/ ZeroReferenceHigh(IntradayOf[feed_of[id]])
                              \/ IntradayOf[feed_of[id]] = None) =>
                      r.store[id] = store[id]
                 /\ id # bad =>
                      r.store[id] =
                        evaluate_and_buy(store, id, feed_of[id], TRUE, tradeCap,
                                         today).store[id]

\* the first document of a batch left shortlisted, the second one bought in
\* the same run
C20_Witness ==
    /\ Len(store) = 2
    /\ store[1].status = "shortlisted"
    /\ store[2].status = "bought"
    /\ store[2].shortlisted_date = store[1].shortlisted_date
    /\ store[2].checked_date = Some(today)
    /\ store[2].first_candle_high # None

\* C21 as claimed: in mark_to_sell_eod and in execute_sell_next_day a fault
\* while one document is processed does not abort the batch: every other
\* document read at the start of the run ends as the job leaves it when it is
\* processed alone, and a to_sell document with a falsy buy_price whose price
\* is available is sold with profit_pct absent.
C21_ExitIsolation ==
    /\ \A bad \in {0} \cup BoughtIds(store) :
         \A daily_of \in [BoughtIds(store) -> SellIds] :
           LET r == mark_to_sell_eod(store, daily_of, bad)
           IN  \A id \in BoughtIds(store) :
                 (id # bad /\ SellSeries[daily_of[id]].kind # "exc") =>
                    r.store[id] = MarkLoop(store, <<id>>, daily_of, 0).store[id]
    /\ \A bad \in {0} \cup ToSellIds(store) :
         \A price_of \in [ToSellIds(store) -> PriceIds] :
           LET r == execute_sell_next_day(store, price_of, bad, today)
           IN  \A id \in ToSellIds(store) :
                 (id # bad /\ PriceOf[price_of[id]].kind # "exc") =>
                    /\ r.store[id] =
                         SellLoop(store, <<id>>, price_of, 0, today).store[id]
                    /\ (Falsy(store[id].buy_price)
                          /\ PriceOf[price_of[id]].kind = "ok") =>
                         (r.store[id].status = "sold" /\ r.store[id].profit_pct = None)

\* C22 as claimed: in update_shortlist a fault while one candidate is
\* processed (a store lookup or insert that raises) does not abort the
\* batch: every other candidate of the list is in the store for today after
\* the run.
C22_ShortlistIsolation ==
    \A stocks \in CandidateLists :
      \A fault_at \in 0..Len(stocks) :
        LET r == update_shortlist(store, "above", stocks, today, fault_at)
        IN  \A j \in 1..Len(stocks) :
              j # fault_at => FindBySymbolDate(r.store, stocks[j], today) # 0

\* C23 as claimed: no step of the engine (the buy helpers included) deletes a
\* document or changes its identity, and every document a step inserts has
\* status shortlisted with no entry and no exit field.
C23_CreatedShortlisted ==
    [][ /\ Len(store') >= Len(store)
        /\ \A i \in 1..Len(store) :
             /\ store'[i].symbol = store[i].symbol
             /\ store'[i].shortlisted_date = store[i].shortlisted_date
        /\ \A i \in (Len(store) + 1)..Len(store') :
             /\ store'[i].status = "shortlisted"
             /\ AllAbsent(EntryFields(store'[i]))
             /\ AllAbsent(ExitFields(store'[i])) ]_vars

\* the candle of the set of positions S with the earliest bar-open time
EarliestOf(data, S) ==
    data[CHOOSE i \in S : \A j \in S : data[i].tod <= data[j].tod]

\* C24: evaluate_and_buy takes as reference candle the earliest candle with
\* 09:15 <= t < 09:30; only when there is none, the earliest candle with
\* 09:00 <= t <= 10:00; a candle at 09:30 is never taken while a candle in
\* [09:15, 09:30) exists; first_high is the High of the candle taken.
C24_ReferenceCandle ==
    (entry.pc = "done" /\ entry.data_today # None /\ Val(entry.data_today) # <<>>) =>
      LET data == Val(entry.data_today)
          W1 == {i \in DOMAIN data : T0915 <= data[i].tod /\ data[i].tod < T0930}
          W2 == {i \in DOMAIN data : T0900 <= data[i].tod /\ data[i].tod <= T1000}
      IN  /\ W1 # {} => entry.first_row = Some(EarliestOf(data, W1))
          /\ (W1 = {} /\ W2 # {}) => entry.first_row = Some(EarliestOf(data, W2))
          /\ (W1 = {} /\ W2 = {}) => entry.first_row = None
          /\ (W1 # {} /\ entry.first_row # None) => Val(entry.first_row).tod # T0930
          /\ entry.outcome \in {"bought", "not_triggered"} =>
               /\ entry.first_row # None
               /\ entry.day_high = Some(MaxHigh(data))

\* a day with candles at 09:00, 09:29 and 09:30: the 09:29 candle is taken
C24_Witness ==
    /\ entry.pc = "done"
    /\ entry.data_today # None
    /\ Len(Val(entry.data_today)) = 3
    /\ Val(entry.data_today)[1].tod = T0900
    /\ Val(entry.data_today)[3].tod = T0930
    /\ entry.first_row # None
    /\ Val(entry.first_row).tod = T0930 - 1

\* an indeterminate case of the entry rule: no data, no candle in either
\* window, or a breakout whose quantity at the entry price is 0
Indeterminate(data, cap) ==
    \/ data = None
    \/ Val(data) = <<>>
    \/ \A i \in DOMAIN Val(data) :
          ~(T0900 <= Val(data)[i].tod /\ Val(data)[i].tod <= T1000)
    \/ /\ HasReference(data)
       /\ MaxHigh(Val(data)) > Val(FirstRow(Val(data))).high
       /\ NearestPaise(Val(FirstRow(Val(data))).high) > 0
       /\ Quantity(cap, NearestPaise(Val(FirstRow(Val(data))).high)) = 0

\* C25: a run of buy_shortlisted leaves a shortlisted document completely
\* unchanged in each indeterminate case (no data from the fetcher, no candle
\* in either reference window, a quantity of 0 at the entry price): it is
\* not marked not_triggered and the next run reads it again.
C25_IndeterminateUntouched ==
    \A bad \in {0} \cup ShortlistedIds(store) :
      \A feed_of \in [ShortlistedIds(store) -> FeedIds] :
        LET r == buy_shortlisted(store, "above", feed_of, bad, tradeCap, today)
        IN  \A id \in ShortlistedIds(store) :
              Indeterminate(IntradayOf[feed_of[id]], tradeCap) =>
                /\ r.store[id] = store[id]
                /\ id \in ShortlistedIds(r.store)

\* a run that left the first document shortlisted and marked the second
\* one not_triggered from its candles
C25_Witness ==
    /\ Len(store) = 2
    /\ store[1].status = "shortlisted"
    /\ AllAbsent(EntryFields(store[1]))
    /\ store[1].checked_date = None
    /\ store[2].status = "not_triggered"
    /\ store[2].shortlisted_date = store[1].shortlisted_date
    /\ store[2].checked_date = Some(today)
    /\ store[2].first_candle_high # None
    /\ tradeCap > 0

\* C26 as claimed: the entry decision is made only from candles of the
\* current day: when the series the fetcher returns holds no candle of
\* today (the fallback's rows of the last available day), the document is
\* not moved to bought or not_triggered.
C26_TodayOnly ==
    \A bad \in {0} \cup ShortlistedIds(store) :
      \A feed_of \in [ShortlistedIds(store) -> FeedIds] :
        LET r == buy_shortlisted(store, "above", feed_of, bad, tradeCap, today)
        IN  \A id \in ShortlistedIds(store) :
              LET data == IntradayOf[feed_of[id]]
              IN  (data # None /\ \A i \in DOMAIN Val(data) : ~IsToday(Val(data)[i])) =>
                     r.store[id].status = "shortlisted"

\* C27 as claimed: with runs overlapping at their store calls, no step
\* moves a sold document out of sold or overwrites its sell_price, and no
\* step moves a not_triggered document to bought or a bought one to
\* not_triggered.
C27_OneWayInterleaved ==
    [][ \A i \in 1..Len(store) :
          /\ store[i].status = "sold" =>
               (store'[i].status = "sold" /\ store'[i].sell_price = store[i].sell_price)
          /\ store[i].status = "not_triggered" => store'[i].status # "bought"
          /\ store[i].status = "bought" => store'[i].status # "not_triggered" ]_vars

\* C30 as claimed: the store never holds two documents with the same symbol
\* and shortlisted_date, also when two runs of update_shortlist overlap and
\* are suspended between the existence check and the insert.
C30_OnePerSymbolDay ==
    \A i, j \in 1..Len(store) :
      (store[i].symbol = store[j].symbol
         /\ store[i].shortlisted_date = store[j].shortlisted_date) => i = j

\* C28 as claimed: with the scheduler as start_scheduler leaves it and its
\* ticks occurring fairly, by scheduled ticks alone every shortlisted
\* document is eventually bought or not_triggered, every bought document
\* whose closes meet the exit condition is eventually to_sell, and every
\* to_sell document is eventually sold.
C28_HandOff ==
    \A i \in 1..MaxRecords :
      /\ (Len(store) >= i /\ store[i].status = "shortlisted")
           ~> (Len(store) >= i /\ store[i].status \in {"bought", "not_triggered"})
      /\ (Len(store) >= i /\ store[i].status = "bought")
           ~> (Len(store) >= i /\ store[i].status = "to_sell")
      /\ (Len(store) >= i /\ store[i].status = "to_sell")
           ~> (Len(store) >= i /\ store[i].status = "sold")

\* the documents of the store in a status
WithStatus(status) == {i \in 1..Len(store) : store[i].status = status}

\* C29 as claimed: one run of a batch job processes every document that has
\* the job's status at the start of the run, however many there are: the
\* entry job fetches for every shortlisted document, the exit-marking job
\* marks every bought document whose closes meet the exit condition and the
\* exit-execution job sells every to_sell document that has a price.
C29_WholeBatch ==
    /\ buy_shortlisted(store, "above", [id \in ShortlistedIds(store) |-> 2], 0,
                       tradeCap, today).fetched = WithStatus("shortlisted")
    /\ LET r == mark_to_sell_eod(store, [id \in BoughtIds(store) |-> 3], 0)
       IN  \A i \in WithStatus("bought") : r.store[i].status = "to_sell"
    /\ LET r == execute_sell_next_day(store, [id \in ToSellIds(store) |-> 2], 0, today)
       IN  \A i \in WithStatus("to_sell") : r.store[i].status = "sold"

\* C31 as claimed: buy_stock_api on a shortlisted document (no download or
\* update raising) sets it to bought only if the index and the stock are both
\* above their 50-EMA; with the index not above, or the stock not above, the
\* document becomes not_triggered with checked_date set; a bought document
\* has buy_price = the latest close (1-minute, else daily) and
\* quantity = floor(TRADE_CAP / buy_price).
C31_EmaPairEntry ==
    \A symbol \in Symbols :
      LET id == FindShortlisted(store, symbol)
      IN  id # 0 =>
            \A k \in IndexIds, j \in IndexIds, p \in PriceIds :
              ( /\ IndexSeries[k].kind # "exc"
                /\ IndexSeries[j].kind # "exc"
                /\ PriceOf[p].kind # "exc" ) =>
                LET r == buy_stock_api(store, symbol, NiftyOf[k], StockOf[j],
                                       PriceOf[p], TRUE, tradeCap, today)
                    after == r.store[id]
                    not_above == \/ IndexNotAbove(IndexSeries[k])
                                 \/ IndexNotAbove(IndexSeries[j])
                IN  /\ after.status = "bought" => ~not_above
                    /\ not_above =>
                         /\ after.status = "not_triggered"
                         /\ after.checked_date = Some(today)
                    /\ after.status = "bought" =>
                         /\ PriceOf[p].kind = "ok"
                         /\ after.buy_price = Some(PriceOf[p].close)
                         /\ after.quantity # None
                         /\ Val(after.quantity) * PriceOf[p].close <= tradeCap * 100
                         /\ tradeCap * 100 < (Val(after.quantity) + 1) * PriceOf[p].close

\* C32 as claimed: when the latest price exceeds TRADE_CAP (quantity 0) and
\* both EMA filters pass, buy_stock_api moves the shortlisted document to
\* not_triggered, whereas evaluate_and_buy, on a breakout whose price exceeds
\* TRADE_CAP, leaves the document untouched.
C32_QuantityZeroPolicies ==
    \A symbol \in Symbols :
      LET id == FindShortlisted(store, symbol)
      IN  id # 0 =>
            /\ \A p \in PriceIds :
                 ( /\ PriceOf[p].kind = "ok"
                   /\ 0 <= tradeCap * 100
                   /\ tradeCap * 100 < PriceOf[p].close ) =>
                   buy_stock_api(store, symbol, "above", "above", PriceOf[p],
                                 TRUE, tradeCap, today).store[id].status
                     = "not_triggered"
            /\ \A k \in FeedIds :
                 ( /\ HasReference(IntradayOf[k])
                   /\ MaxHigh(Val(IntradayOf[k])) > Val(FirstRow(Val(IntradayOf[k]))).high
                   /\ 0 <= tradeCap * 100
                   /\ tradeCap * 100 < NearestPaise(Val(FirstRow(Val(IntradayOf[k]))).high) ) =>
                   evaluate_and_buy(store, id, k, TRUE, tradeCap, today).store[id]
                     = store[id]

\* C33: mark_not_triggered and buy_stock_api, called for a symbol with no
\* document in shortlisted status (none at all, or only documents in other
\* statuses), insert and modify nothing, fetch no market data and return
\* the non-success answer instead of raising.
C33_NotFoundNoOp ==
    \A symbol \in Symbols :
      (\A id \in Ids : store[id].symbol = symbol => store[id].status # "shortlisted") =>
        /\ \A store_ok \in BOOLEAN :
             LET r == mark_not_triggered(store, symbol, store_ok, today)
             IN  r.store = store /\ r.result = "not_found"
        /\ \A i \in NiftyStates \X StockStates \X Prices, store_ok \in BOOLEAN :
             LET r == buy_stock_api(store, symbol, i[1], i[2], i[3], store_ok,
                                    tradeCap, today)
             IN  r.store = store /\ r.result = "not_found" /\ r.fetches = 0

\* symbol A has documents, none of them shortlisted, while B has none at
\* all: both handlers answer "not found" for A and for B
C33_Witness ==
    /\ \E id \in Ids : store[id].symbol = "A"
    /\ \A id \in Ids : store[id].symbol = "A" /\ store[id].status \in {"not_triggered", "sold"}
    /\ mark_not_triggered(store, "A", TRUE, today).result = "not_found"
    /\ buy_stock_api(store, "B", "above", "above", Price("ok", 10700), TRUE,
                     tradeCap, today).result = "not_found"

\* the EMA as the specification defines it: ema[1] = close[1] and
\* ema[t] = w * close[t] + (1 - w) * ema[t-1] with w = 2 / (span + 1).
\* EmaSteps applies the steps of rows lo..hi to y, the rows split in two.
RECURSIVE EmaSteps(_, _, _, _, _)
EmaSteps(closes, span, lo, hi, y) ==
    IF lo > hi THEN y
    ELSE IF lo = hi
    THEN RatAdd(RatMul(Rat(2, span + 1), Rat(closes[lo], 1)),
                RatMul(Rat(span - 1, span + 1), y))
    ELSE LET mid == (lo + hi) \div 2
         IN  CHOOSE r \in { EmaSteps(closes, span, mid + 1, hi, left) :
                              left \in {EmaSteps(closes, span, lo, mid, y)} } : TRUE

RecursiveEma(closes, span, t) == EmaSteps(closes, span, 2, t, Rat(closes[1], 1))

\* C34 as claimed: the 50-EMA column of the index filter, of the stock
\* filter and of the exit-marking check is the recursive EMA, one value per
\* row; its first value is the first close, and on a constant series every
\* value is that constant.
C34_OneEma ==
    daily.answer # None =>
      LET closes == daily.closes
          ema == Val(daily.answer)
      IN  /\ DOMAIN ema = 1..Len(closes)
          /\ \A t \in 1..Len(closes) : ema[t] = RecursiveEma(closes, Span, t)
          /\ ema[1] = <<closes[1], 1>>
          /\ (\A t \in 1..Len(closes) : closes[t] = closes[1]) =>
               \A t \in 1..Len(closes) : ema[t] = <<closes[1], 1>>

\* an answer of NSE that holds rows of the current day
UsableToday(resp) ==
    /\ resp.kind = "ok"
    /\ \E i \in 1..Len(resp.candles) : resp.candles[i].ago = 0

\* C35: every call of fetch_intraday_15m_for_today ends, after at most 3
\* requests to NSE and at most one download from yfinance; yfinance is asked
\* only when no request to NSE gave rows of today, and nothing is asked
\* once it has been.
C35_BoundedFetch ==
    /\ [](fetch.requests <= Retries)
    /\ []((fetch.pc = "yf" \/ fetch.asked_yf) =>
            \A i \in 1..fetch.requests : ~UsableToday(fetch.nse[i]))
    /\ [][fetch.asked_yf => fetch' = fetch]_vars
    /\ <>(fetch.pc = "done")

\* two transient faults and then today's rows from NSE: three requests, the
\* rows returned sorted, yfinance never asked
C35_Witness ==
    /\ fetch.pc = "done"
    /\ fetch.nse[1] = NseHttp(500) /\ fetch.nse[2] = NseExc
    /\ UsableToday(fetch.nse[3])
    /\ fetch.requests = Retries
    /\ ~fetch.asked_yf
    /\ fetch.out = Returned(Some(<<Candle(0, 555, 10000), Candle(0, 570, 10150)>>))

\* C36: every document that is bought, to_sell or sold has
\* quantity * buy_price <= TRADE_CAP, whether the breakout rule or the
\* manual handler bought it.
C36_CostWithinCap ==
    \A id \in Ids :
      store[id].status \in {"bought", "to_sell", "sold"} =>
        /\ store[id].quantity # None
        /\ store[id].buy_price # None
        /\ Val(store[id].quantity) * Val(store[id].buy_price) <= tradeCap * 100

\* a position of 9 shares at 100.20 from the breakout rule beside one of 9
\* shares at 107.00 from the manual handler, under a cap of 1000; one of
\* the two has been sold since
C36_Witness ==
    /\ tradeCap = 1000
    /\ \E i \in Ids, j \in Ids :
         /\ store[i].status \in {"bought", "to_sell", "sold"}
         /\ store[i].first_candle_high = Some(10000)
         /\ store[i].buy_price = Some(10020) /\ store[i].quantity = Some(9)
         /\ store[j].status = "sold"
         /\ store[j].first_candle_high = None
         /\ store[j].buy_price = Some(10700) /\ store[j].quantity = Some(9)

\* C37: on every document with first_candle_high and day_high recorded,
\* day_high >= first_candle_high, and a document the breakout rule marked
\* not_triggered has the two equal: a day_high below first_candle_high is
\* never recorded.
C37_DayHighCoversReference ==
    \A id \in Ids :
      (store[id].first_candle_high # None /\ store[id].day_high # None) =>
        /\ Val(store[id].day_high) >= Val(store[id].first_candle_high)
        /\ store[id].status = "not_triggered" =>
             Val(store[id].day_high) = Val(store[id].first_candle_high)

\* the 09:15 candle at 100.00 followed by a candle at 99.00: marked
\* not_triggered with day_high = first_candle_high = 100.00, beside a
\* document bought on a day_high of 101.50
C37_Witness ==
    \E i \in Ids, j \in Ids :
      /\ store[i].status = "not_triggered"
      /\ store[i].first_candle_high = Some(10000)
      /\ store[i].day_high = Some(10000)
      /\ store[j].status = "bought"
      /\ store[j].first_candle_high = Some(10000)
      /\ store[j].day_high = Some(10150)

\* two documents agree on every field outside fields
SameBut(after, before, fields) ==
    /\ DOMAIN after = DOMAIN before
    /\ \A f \in (DOMAIN before) \ fields : after[f] = before[f]

\* C38: exit marking changes only the status of a document it marks; exit
\* execution changes only status, sell_price, sell_date and profit_pct (so
\* never buy_price, quantity or buy_date); the breakout entry decision never
\* changes symbol, shortlisted_date, close, per_chg or volume, nor the
\* document's _id; and no operation changes a document other than the ones
\* it processes, faults included.
C38_Frame ==
    /\ \A bad \in {0} \cup BoughtIds(store) :
         \A daily_of \in [BoughtIds(store) -> SellIds] :
           LET r == mark_to_sell_eod(store, daily_of, bad)
           IN  /\ Len(r.store) = Len(store)
               /\ \A id \in Ids :
                    \/ r.store[id] = store[id]
                    \/ /\ store[id].status = "bought"
                       /\ SameBut(r.store[id], store[id], {"status"})
    /\ \A bad \in {0} \cup ToSellIds(store) :
         \A price_of \in [ToSellIds(store) -> PriceIds] :
           LET r == execute_sell_next_day(store, price_of, bad, today)
           IN  /\ Len(r.store) = Len(store)
               /\ \A id \in Ids :
                    \/ r.store[id] = store[id]
                    \/ /\ store[id].status = "to_sell"
                       /\ SameBut(r.store[id], store[id],
                                  {"status", "sell_price", "sell_date", "profit_pct"})
    /\ \A bad \in {0} \cup ShortlistedIds(store) :
         \A feed_of \in [ShortlistedIds(store) -> FeedIds] :
           LET r == buy_shortlisted(store, "above", feed_of, bad, tradeCap, today)
           IN  /\ Len(r.store) = Len(store)
               /\ \A id \in Ids :
                    \/ r.store[id] = store[id]
                    \/ /\ store[id].status = "shortlisted"
                       /\ SameBut(r.store[id], store[id],
                                  DOMAIN store[id] \
                                    {"symbol", "shortlisted_date", "close",
                                     "per_chg", "volume"})
    /\ \A id \in Ids, other \in Ids :
         other # id =>
           /\ \A k \in FeedIds :
                evaluate_and_buy(store, id, k, TRUE, tradeCap, today).store[other]
                  = store[other]
           /\ \A p \in PriceIds :
                sell_stock(store, id, PriceOf[p], TRUE, today).store[other]
                  = store[other]

\* a document sold with its buy_price, quantity and buy_date as they were
\* bought, beside a document of the same run's batch that is still to_sell
\* or was marked since
C38_Witness ==
    \E i \in Ids, j \in Ids :
      /\ i # j
      /\ store[i].status = "sold"
      /\ store[i].buy_price = Some(10020) /\ store[i].quantity = Some(9)
      /\ store[i].buy_date # None /\ store[i].sell_price # None
      /\ store[j].status = "to_sell"
      /\ store[j].sell_price = None

====
